---- MODULE Spec2Model ----
(***************************************************************************)
(* Model of the finance tracker: the client-side mutation flow             *)
(* (AddTransactionModal.handleSubmit, Loans.tsx 473-580), the aggregations *)
(* of the Dashboard, Accounts, Transactions and Loans views, one browser   *)
(* session that moves between them, the row-level policies and the links  *)
(* of the schema, and the add forms with their loads and submissions.      *)
(*                                                                         *)
(* Amounts are whole currency units, except where the balance arithmetic   *)
(* is followed in cents and binary64.  A store request either succeeds or  *)
(* comes back as { data: null, error }; the client library does not throw. *)
(***************************************************************************)
EXTENDS Integers, Sequences, FiniteSets, TLC

\* ------------------------------------------------------------------ bounds
MaxSubmits == 2          \* submissions explored, over all sessions

\* ------------------------------------------------------------- small sets
Clients == {"s1", "s2"}              \* browser sessions of the same user
AccountIds == {"a1", "a2"}
TxnTypes == {"expense", "income"}    \* useState<'expense' | 'income'>
NullId == "null"
OpeningBalance == 1000               \* balance the accounts were created with

\* The amount field holds text: the empty string or a signed decimal numeral.
AmountTexts ==
  { [sign |-> 1, digits |-> <<>>],
    [sign |-> 1, digits |-> <<1, 5, 0>>],
    [sign |-> -1, digits |-> <<2, 0>>] }

RECURSIVE DigitsValue(_)
DigitsValue(ds) ==
  IF ds = <<>> THEN 0 ELSE 10 * DigitsValue(SubSeq(ds, 1, Len(ds) - 1)) + ds[Len(ds)]

\* parseFloat(amount) on the numerals the field can hold
parseFloat(text) == text.sign * DigitsValue(text.digits)

\* !amount : the empty string is falsy, every numeral (also "0") is truthy
IsEmptyText(text) == text.digits = <<>>

\* ------------------------------------------------------------------- text
\* A string is the sequence of its characters.
UpperCase == << "A", "B", "C", "D", "E", "F", "G", "H", "I", "J", "K", "L", "M",
                "N", "O", "P", "Q", "R", "S", "T", "U", "V", "W", "X", "Y", "Z" >>
LowerCase == << "a", "b", "c", "d", "e", "f", "g", "h", "i", "j", "k", "l", "m",
                "n", "o", "p", "q", "r", "s", "t", "u", "v", "w", "x", "y", "z" >>

IsUpper(ch) == \E i \in 1..Len(UpperCase) : UpperCase[i] = ch

\* String.prototype.toLowerCase
toLowerCase(text) ==
  [i \in 1..Len(text) |->
     IF IsUpper(text[i])
     THEN LowerCase[CHOOSE k \in 1..Len(UpperCase) : UpperCase[k] = text[i]]
     ELSE text[i]]

\* String.prototype.includes
includes(text, term) ==
  \E i \in 0..(Len(text) - Len(term)) : SubSeq(text, i + 1, i + Len(term)) = term

\* a value that is null (or undefined) or a string
NullText == [isNull |-> TRUE, value |-> <<>>]
SomeText(text) == [isNull |-> FALSE, value |-> text]

\* a || b on strings: b when a is null, undefined or ''
OrElse(a, b) == IF a.isNull \/ a.value = <<>> THEN b ELSE a.value

Uncategorized == << "U", "n", "c", "a", "t", "e", "g", "o", "r", "i", "z", "e", "d" >>
Unknown == << "U", "n", "k", "n", "o", "w", "n" >>

VARIABLES
  accounts,       \* store: accounts table, id -> [balance, is_active, name]
  transactions,   \* store: transactions table, a set of rows
  budgets,        \* store: budgets table, a set of rows
  tz,             \* sign of the browser's offset from UTC (1 = east of UTC)
  currentView,    \* AppContent.currentView
  isOpen,         \* AppContent.showAddTransaction, per session
  loading,        \* AddTransactionModal.loading
  pc,             \* request of handleSubmit that is in flight, or "idle"
  req,            \* values handleSubmit closed over when it was called
  accountData,    \* result of the balance re-read
  newBalance,     \* balance computed from the re-read
  log,            \* store requests issued by the current/last submission
  failedReqs,     \* requests of the current/last submission that failed
  alerted,        \* alert('Failed to add transaction') was shown
  succeeded,      \* onSuccess() was invoked
  overlap,        \* another session's submission was in flight meanwhile
  submits,        \* submissions started so far, over all sessions
  stats,          \* Dashboard.stats
  budgetAlerts,   \* Dashboard.budgetAlerts
  dash,           \* progress of loadDashboardData
  acctView,       \* Accounts view: [accounts, loading, fetch]
  loans,          \* store: loans table, a set of rows
  subscriptions,  \* store: subscriptions table, a set of rows
  clock,          \* the instant new Date() returns, in hours since day 0, 00:00 UTC
  loansView,      \* Loans view: [loans, loading, fetch]
  txnView,        \* Transactions view: [transactions, loading, fetch]
  showAddModal,   \* showAddModal of the view that is mounted
  upcomingSubscriptions,  \* Dashboard.upcomingSubscriptions
  recentTransactions,     \* Dashboard.recentTransactions
  db,             \* store seen by several users: table -> rows with their owner
  lastRead,       \* the caller and the rows of the latest read of db
  schema,         \* store as the schema script leaves it: tables with their links
  categories,     \* store: the categories the user can read, id -> [name, type]
  money,          \* one account's balance in cents, and the last newBalance computed
  form,           \* the AddTransactionModal instance: its state and requests in flight
  addForm         \* the AddAccountModal or AddLoanModal instance of the view shown

storeVars == <<accounts, transactions, budgets, tz>>
modalVars == <<isOpen, loading, pc, req, accountData, newBalance, log,
               failedReqs, alerted, succeeded, overlap, submits>>
viewVars == <<stats, budgetAlerts, dash, acctView>>
ledgerVars == <<loans, subscriptions, clock>>
pageVars == <<loansView, txnView, showAddModal>>
rlsVars == <<db, lastRead>>
extVars == <<ledgerVars, pageVars, rlsVars, upcomingSubscriptions, recentTransactions>>
sessionVars == <<currentView, viewVars, pageVars, upcomingSubscriptions, recentTransactions>>
formVars == <<money, form, addForm>>
auxVars == <<schema, categories, formVars>>
vars == <<accounts, transactions, budgets, tz, currentView, isOpen, loading, pc, req,
          accountData, newBalance, log, failedReqs, alerted, succeeded,
          overlap, submits, stats, budgetAlerts, dash, acctView,
          loans, subscriptions, clock, loansView, txnView, showAddModal,
          upcomingSubscriptions, recentTransactions, db, lastRead, schema, categories,
          money, form, addForm>>

\* ----------------------------------------------------------------- dates
\* Days are counted from the first day of the current calendar month (day 0)
\* in the browser's local time zone.
Today == 1

\* ------------------------------------------------- view state at mount
NoStats == [totalBalance |-> 0, monthlyIncome |-> 0, monthlyExpense |-> 0,
            savingsRate |-> [kind |-> "fin", num |-> 0, den |-> 1]]
DashMounted == [phase |-> "mounted", todo |-> <<>>, alerts |-> <<>>,
                computed |-> <<>>, failed |-> {},
                accountsOk |-> FALSE, transactionsOk |-> FALSE, budgetsOk |-> FALSE]
AcctMounted == [accounts |-> <<>>, loading |-> TRUE, fetch |-> "none"]

LoansMounted == [loans |-> <<>>, loading |-> TRUE, fetch |-> "none"]
TxnMounted == [transactions |-> <<>>, loading |-> TRUE, fetch |-> "none",
               searchTerm |-> <<>>, filterType |-> "all"]
NoRead == [caller |-> NullId, table |-> NullId, rows |-> {}]
NoDb == [t \in {"categories", "accounts", "transactions"} |-> {}]

NoRequest == [type |-> "expense", amount |-> 0, accountId |-> "a1",
              categoryId |-> NullId, date |-> Today, view |-> "dashboard"]
NoAccountData == [has |-> FALSE, balance |-> 0]

ModalInit ==
  /\ isOpen = [c \in Clients |-> FALSE]
  /\ loading = [c \in Clients |-> FALSE]
  /\ pc = [c \in Clients |-> "idle"]
  /\ req = [c \in Clients |-> NoRequest]
  /\ accountData = [c \in Clients |-> NoAccountData]
  /\ newBalance = [c \in Clients |-> 0]
  /\ log = [c \in Clients |-> <<>>]
  /\ failedReqs = [c \in Clients |-> {}]
  /\ alerted = [c \in Clients |-> FALSE]
  /\ succeeded = [c \in Clients |-> FALSE]
  /\ overlap = [c \in Clients |-> FALSE]
  /\ submits = 0

ViewInit ==
  /\ stats = NoStats
  /\ budgetAlerts = <<>>
  /\ dash = DashMounted
  /\ acctView = AcctMounted

\* nothing but accounts, transactions and budgets in the store, the clock at
\* the start of today
LedgerInit ==
  /\ loans = {}
  /\ subscriptions = {}
  /\ clock = Today * 24

PageInit ==
  /\ loansView = LoansMounted
  /\ txnView = TxnMounted
  /\ showAddModal = FALSE
  /\ upcomingSubscriptions = <<>>
  /\ recentTransactions = <<>>

RlsInit ==
  /\ db = NoDb
  /\ lastRead = NoRead

\* the names the accounts were created with
AccountNames ==
  "a1" :> << "C", "a", "s", "h" >> @@ "a2" :> << "B", "a", "n", "k" >> @@
  "a3" :> << "C", "a", "r", "d" >>

\* the categories the transactions and budgets of the stores link to
DefaultCategories ==
  "food" :> [name |-> << "F", "o", "o", "d" >>, type |-> "expense"] @@
  "rent" :> [name |-> << "R", "e", "n", "t" >>, type |-> "expense"] @@
  "salary" :> [name |-> << "S", "a", "l", "a", "r", "y" >>, type |-> "income"]

\* no amount posted yet: the balance column's DEFAULT 0
NoMoney == [balance |-> 0, posted |-> 0, last |-> <<>>]

\* the AddTransactionModal instance as AppContent mounts it: closed, every
\* field at its useState value, nothing in flight
FormMounted ==
  [isOpen |-> FALSE, type |-> "expense", amount |-> [sign |-> 1, digits |-> <<>>],
   accountId |-> "", categoryId |-> "", categories |-> <<>>, loading |-> FALSE,
   accountsLoading |-> FALSE, categoryLoads |-> <<>>, pending |-> <<>>,
   attempts |-> 0, user |-> TRUE]

\* neither the AddAccountModal nor the AddLoanModal is rendered
NoAddForm == [mounted |-> FALSE, loading |-> FALSE, pending |-> 0, orphans |-> 0]

FormInit ==
  /\ money = NoMoney
  /\ form = FormMounted
  /\ addForm = NoAddForm

\* the tables as CREATE TABLE leaves them, before the seed step
NoSchema == [categories |-> {}, transactions |-> {}, budgets |-> {}, subscriptions |-> {},
             nextId |-> 1, seeds |-> 0]

AuxInit ==
  /\ schema = NoSchema
  /\ categories = DefaultCategories
  /\ FormInit

\* ---------------------------------------------------- the mutation flow
Init ==
  /\ accounts = [a \in AccountIds |-> [balance |-> OpeningBalance, is_active |-> TRUE,
                                       name |-> AccountNames[a]]]
  /\ transactions = {}
  /\ budgets = {}
  /\ tz = 0
  /\ currentView = "dashboard"
  /\ ModalInit
  /\ ViewInit
  /\ LedgerInit
  /\ PageInit
  /\ AuxInit
  /\ RlsInit

\* Layout onQuickAdd -> setShowAddTransaction(true)
OpenModal(c) ==
  /\ ~isOpen[c]
  /\ isOpen' = [isOpen EXCEPT ![c] = TRUE]
  /\ UNCHANGED <<storeVars, auxVars, loading, pc, req, accountData, newBalance, log,
                 failedReqs, alerted, succeeded, overlap, submits, currentView, extVars, viewVars>>

\* the X and Cancel buttons: onClose -> setShowAddTransaction(false)
CloseModal(c) ==
  /\ isOpen[c]
  /\ isOpen' = [isOpen EXCEPT ![c] = FALSE]
  /\ UNCHANGED <<storeVars, auxVars, loading, pc, req, accountData, newBalance, log,
                 failedReqs, alerted, succeeded, overlap, submits, currentView, extVars, viewVars>>

\* newBalance = type === 'income' ? currentBalance + amt : currentBalance - amt
NewBalanceAlwaysAdd(type, currentBalance, amount) == currentBalance + amount

NewBalance(type, currentBalance, amount) ==
  IF type = "income" THEN currentBalance + amount ELSE currentBalance - amount

\* handleSubmit up to its first await: guard, setLoading(true), insert issued
handleSubmit(c, user, accountId, amount, type) ==
  /\ isOpen[c]
  /\ ~loading[c]                                  \* submit button disabled
  /\ pc[c] = "idle"
  /\ submits < MaxSubmits
  /\ user /\ accountId # "" /\ ~IsEmptyText(amount)   \* otherwise: return
  /\ loading' = [loading EXCEPT ![c] = TRUE]
  /\ req' = [req EXCEPT ![c] = [type |-> type, amount |-> parseFloat(amount),
                                accountId |-> accountId, categoryId |-> NullId,
                                date |-> Today, view |-> currentView]]
  /\ pc' = [pc EXCEPT ![c] = "insert"]
  /\ log' = [log EXCEPT ![c] = <<"insert">>]
  /\ failedReqs' = [failedReqs EXCEPT ![c] = {}]
  /\ alerted' = [alerted EXCEPT ![c] = FALSE]
  /\ succeeded' = [succeeded EXCEPT ![c] = FALSE]
  /\ overlap' = [d \in Clients |->
                   IF d = c THEN \E e \in Clients \ {c} : pc[e] # "idle"
                   ELSE IF pc[d] # "idle" THEN TRUE ELSE overlap[d]]
  /\ submits' = submits + 1
  /\ UNCHANGED <<storeVars, auxVars, isOpen, accountData, newBalance, currentView, extVars, viewVars>>

\* the owner and key columns a request of handleSubmit is restricted by: the
\* insert carries user_id in its row, the re-read and the write-back have
\* .eq('id', accountId) and nothing else
RequestScope(kind) ==
  IF kind = "insert" THEN {"user_id"} ELSE {"id"}

\* the row handleSubmit inserts; the store assigns the id (uuid_generate_v4())
TxnRow(r) ==
  [id |-> Cardinality(transactions) + 1, account_id |-> r.accountId, category_id |-> r.categoryId,
   amount |-> r.amount, type |-> r.type, merchant |-> NullText, description |-> NullText,
   transaction_date |-> r.date]

\* the views onSuccess reloads the page on
ReloadViews == {"dashboard", "transactions"}

\* window.location.reload(): the application starts again, on the Dashboard,
\* every view with the state it is mounted with
reload ==
  /\ currentView' = "dashboard"
  /\ stats' = NoStats
  /\ budgetAlerts' = <<>>
  /\ dash' = DashMounted
  /\ acctView' = AcctMounted
  /\ loansView' = LoansMounted
  /\ txnView' = TxnMounted
  /\ showAddModal' = FALSE
  /\ upcomingSubscriptions' = <<>>
  /\ recentTransactions' = <<>>

\* AppContent's onSuccess, with the currentView of the render the submission
\* was made in: setShowAddTransaction(false), and the reload on two views
onSuccess(view) ==
  IF view \in ReloadViews THEN reload ELSE UNCHANGED sessionVars

\* onSuccess(); resetForm(); onClose(); finally setLoading(false)
FinishSuccess(c) ==
  /\ onSuccess(req[c].view)
  /\ succeeded' = [succeeded EXCEPT ![c] = TRUE]
  /\ isOpen' = [isOpen EXCEPT ![c] = FALSE]
  /\ loading' = [loading EXCEPT ![c] = FALSE]
  /\ pc' = [pc EXCEPT ![c] = "idle"]
  /\ accountData' = [accountData EXCEPT ![c] = NoAccountData]
  /\ newBalance' = [newBalance EXCEPT ![c] = 0]
  /\ req' = [req EXCEPT ![c] = NoRequest]
  /\ UNCHANGED alerted

\* catch: console.error, alert(...); finally setLoading(false)
FinishFailure(c) ==
  /\ alerted' = [alerted EXCEPT ![c] = TRUE]
  /\ loading' = [loading EXCEPT ![c] = FALSE]
  /\ pc' = [pc EXCEPT ![c] = "idle"]
  /\ accountData' = [accountData EXCEPT ![c] = NoAccountData]
  /\ newBalance' = [newBalance EXCEPT ![c] = 0]
  /\ req' = [req EXCEPT ![c] = NoRequest]
  /\ UNCHANGED <<succeeded, isOpen, sessionVars>>

\* mutant: the insert error is not thrown, the handler carries on
InsertResponseNoThrow(c, ok) ==
  /\ pc[c] = "insert"
  /\ transactions' = IF ok THEN transactions \cup {TxnRow(req[c])} ELSE transactions
  /\ failedReqs' = [failedReqs EXCEPT ![c] = IF ok THEN @ ELSE @ \cup {"insert"}]
  /\ log' = [log EXCEPT ![c] = Append(@, "select")]
  /\ pc' = [pc EXCEPT ![c] = "select"]
  /\ UNCHANGED <<accounts, budgets, tz, auxVars, isOpen, loading, req, accountData,
                 newBalance, alerted, succeeded, overlap, submits, currentView, extVars, viewVars>>

\* the insert completes; on success the balance re-read is issued
InsertResponse(c, ok) ==
  /\ pc[c] = "insert"
  /\ IF ok
     THEN /\ transactions' = transactions \cup {TxnRow(req[c])}
          /\ log' = [log EXCEPT ![c] = Append(@, "select")]
          /\ pc' = [pc EXCEPT ![c] = "select"]
          /\ UNCHANGED <<failedReqs, alerted, succeeded, isOpen, loading,
                         accountData, newBalance, req, sessionVars>>
     ELSE /\ failedReqs' = [failedReqs EXCEPT ![c] = @ \cup {"insert"}]
          /\ FinishFailure(c)                     \* if (txnError) throw txnError
          /\ UNCHANGED <<transactions, log>>
  /\ UNCHANGED <<accounts, budgets, tz, auxVars, overlap, submits, ledgerVars, rlsVars>>

\* the re-read completes; with data the new balance is computed and the
\* write-back issued, without data the write-back is skipped
SelectResponse(c, ok) ==
  /\ pc[c] = "select"
  /\ IF ok
     THEN /\ accountData' = [accountData EXCEPT ![c] =
                 [has |-> TRUE, balance |-> accounts[req[c].accountId].balance]]
          /\ newBalance' = [newBalance EXCEPT ![c] =
                 NewBalance(req[c].type, accounts[req[c].accountId].balance, req[c].amount)]
          /\ log' = [log EXCEPT ![c] = Append(@, "update")]
          /\ pc' = [pc EXCEPT ![c] = "update"]
          /\ UNCHANGED <<failedReqs, alerted, succeeded, isOpen, loading, req, sessionVars>>
     ELSE /\ failedReqs' = [failedReqs EXCEPT ![c] = @ \cup {"select"}]
          /\ FinishSuccess(c)                     \* error is never inspected
          /\ UNCHANGED log
  /\ UNCHANGED <<storeVars, auxVars, overlap, submits, ledgerVars, rlsVars>>

\* mutant: the store applies the change as an increment of the stored balance
UpdateResponseAtomic(c, ok) ==
  /\ pc[c] = "update"
  /\ IF ok
     THEN /\ accounts' = [accounts EXCEPT ![req[c].accountId].balance =
                 NewBalance(req[c].type, @, req[c].amount)]
          /\ UNCHANGED failedReqs
     ELSE /\ failedReqs' = [failedReqs EXCEPT ![c] = @ \cup {"update"}]
          /\ UNCHANGED accounts
  /\ FinishSuccess(c)
  /\ UNCHANGED <<transactions, budgets, tz, auxVars, log, overlap, submits, ledgerVars, rlsVars>>

\* the write-back completes: update({ balance: newBalance }).eq('id', accountId);
\* its result is not inspected
UpdateResponse(c, ok) ==
  /\ pc[c] = "update"
  /\ IF ok
     THEN /\ accounts' = [accounts EXCEPT ![req[c].accountId].balance = newBalance[c]]
          /\ UNCHANGED failedReqs
     ELSE /\ failedReqs' = [failedReqs EXCEPT ![c] = @ \cup {"update"}]
          /\ UNCHANGED accounts
  /\ FinishSuccess(c)
  /\ UNCHANGED <<transactions, budgets, tz, auxVars, log, overlap, submits, ledgerVars, rlsVars>>

Next ==
  \/ \E c \in Clients : OpenModal(c)
  \/ \E c \in Clients : CloseModal(c)
  \/ \E c \in Clients, user \in BOOLEAN, a \in AccountIds \cup {""},
        amt \in AmountTexts, t \in TxnTypes : handleSubmit(c, user, a, amt, t)
  \/ \E c \in Clients, ok \in BOOLEAN : InsertResponse(c, ok)
  \/ \E c \in Clients, ok \in BOOLEAN : SelectResponse(c, ok)
  \/ \E c \in Clients, ok \in BOOLEAN : UpdateResponse(c, ok)

Spec == Init /\ [][Next]_vars

\* ------------------------------------------------------ the aggregations
\* JavaScript numbers that come out of a division: a finite quotient num/den
\* with den > 0, or Infinity, -Infinity, NaN when the divisor is 0.
Fin(n) == [kind |-> "fin", num |-> n, den |-> 1]

Abs(n) == IF n < 0 THEN 0 - n ELSE n

RECURSIVE GCD(_, _)
GCD(a, b) == IF b = 0 THEN a ELSE GCD(b, a % b)

\* a quotient in lowest terms with a positive denominator (n / d, d # 0)
Quotient(n, d) ==
  LET g == GCD(Abs(n), Abs(d))
      sgn == IF d < 0 THEN 0 - 1 ELSE 1
  IN [kind |-> "fin", num |-> sgn * (n \div g), den |-> sgn * (d \div g)]

Div(a, b) ==
  IF b = 0
  THEN [kind |-> IF a > 0 THEN "inf" ELSE IF a < 0 THEN "-inf" ELSE "nan",
        num |-> 0, den |-> 1]
  ELSE Quotient(a, b)

Times(r, k) == IF r.kind = "fin" THEN Quotient(r.num * k, r.den) ELSE r

\* Math.max(0, r)
Max0(r) ==
  IF r.kind = "nan" \/ r.kind = "inf" THEN r
  ELSE IF r.kind = "-inf" \/ r.num < 0 THEN Fin(0)
  ELSE r

\* r >= k for an integer k
GreaterEq(r, k) ==
  IF r.kind = "fin" THEN r.num >= k * r.den ELSE r.kind = "inf"

\* r <= k for an integer k
LessEq(r, k) ==
  IF r.kind = "fin" THEN r.num <= k * r.den ELSE r.kind = "-inf"

\* a row as the client receives it: only the selected columns
Project(row, cols) == [f \in cols |-> row[f]]

\* reading a property of a fetched row: a column that was not selected is undefined
Undefined == "undefined"
Prop(row, f) == IF f \in DOMAIN row THEN row[f] ELSE Undefined

\* the rows of a result set as an array (the order plays no part in a sum)
RECURSIVE SetToSeq(_)
SetToSeq(rows) ==
  IF rows = {} THEN <<>>
  ELSE LET r == CHOOSE x \in rows : TRUE IN <<r>> \o SetToSeq(rows \ {r})

\* the orders in which a result set without ORDER BY can arrive
Orders(ids) ==
  {o \in [1..Cardinality(ids) -> ids] : \A i, j \in DOMAIN o : i # j => o[i] # o[j]}

\* rows.reduce((sum, r) => sum + Number(r[field]), 0)
RECURSIVE Reduce(_, _)
Reduce(rows, field) ==
  IF rows = <<>> THEN 0
  ELSE Reduce(SubSeq(rows, 1, Len(rows) - 1), field) + rows[Len(rows)][field]

\* rows.filter(r => r[field] === value); a missing field reads as undefined
Filter(rows, field, value) == SelectSeq(rows, LAMBDA r : Prop(r, field) = value)

\* mutant: the accounts query without .eq('is_active', true)
AllAccountIds == DOMAIN accounts

\* accounts query: .eq('user_id', user.id).eq('is_active', true)
ActiveAccountIds == {a \in DOMAIN accounts : accounts[a].is_active}

\* new Date(now.getFullYear(), now.getMonth(), 1).toISOString(): local midnight
\* of the 1st, written in UTC. East of UTC that instant lies on the last day of
\* the previous month, and the date column is compared with that day.
StartOfMonth == IF tz > 0 THEN 0 - 1 ELSE 0

\* transactions query: .gte('transaction_date', startOfMonth), no upper limit
MonthTransactions == {t \in transactions : t.transaction_date >= StartOfMonth}

\* mutant: the difference is taken the other way round
savingsRateOfOverspend(income, expense) ==
  IF income > 0 THEN Times(Div(expense - income, income), 100) ELSE Fin(0)

\* savingsRate = income > 0 ? ((income - expense) / income) * 100 : 0
savingsRate(income, expense) ==
  IF income > 0 THEN Times(Div(income - expense, income), 100) ELSE Fin(0)

\* Quick Insights: {stats.monthlyExpense > stats.monthlyIncome && ...}
SpendingAlert == stats.monthlyExpense > stats.monthlyIncome

\* Quick Insights: {stats.savingsRate >= 20 && ...}
GreatJob == GreaterEq(stats.savingsRate, 20)

\* budgets query: .eq('user_id', user.id).eq('is_active', true),
\* select('id, name, amount, category_id, categories(name)')
ActiveBudgets ==
  SetToSeq({Project(b, {"id", "amount", "category_id"}) : b \in {x \in budgets : x.is_active}})

\* the per-budget query: select('amount').eq('type', 'expense').gte(startOfMonth)
BudgetTransactions ==
  LET rows == SetToSeq({t \in MonthTransactions : t.type = "expense"})
  IN [i \in 1..Len(rows) |-> Project(rows[i], {"amount"})]

\* spent of one budget from the fetched rows (null data leaves it 0)
Spent(budget, ok) ==
  IF ~ok THEN 0
  ELSE IF budget.category_id # NullId
       THEN Reduce(Filter(BudgetTransactions, "category_id", budget.category_id), "amount")
       ELSE Reduce(BudgetTransactions, "amount")

\* the alert threshold of the dashboard
AlertThreshold == 80

\* subscriptions query: .eq('user_id', user.id).eq('is_active', true)
ActiveSubscriptions == {x \in subscriptions : x.is_active}

\* .order('next_billing_date', { ascending: true }); rows with the same date
\* come in an order the store picks
RECURSIVE SortByBillingDate(_)
SortByBillingDate(rows) ==
  IF rows = {} THEN <<>>
  ELSE LET r == CHOOSE x \in rows :
                  \A y \in rows : x.next_billing_date <= y.next_billing_date
       IN <<r>> \o SortByBillingDate(rows \ {r})

\* .limit(n)
Limit(rows, n) == SubSeq(rows, 1, IF Len(rows) < n THEN Len(rows) ELSE n)

UpcomingLimit == 3

\* select('id, name, amount, next_billing_date') ... .limit(3)
UpcomingQuery ==
  LET rows == Limit(SortByBillingDate(ActiveSubscriptions), UpcomingLimit)
  IN [i \in 1..Len(rows) |-> Project(rows[i], {"id", "amount", "next_billing_date"})]

\* Dashboard: loadDashboardData up to the budget loop (the Promise.all fan-out
\* and the state updates that follow it)
\* ------------------------------------------------- the Transactions view
\* .order('transaction_date', { ascending: false }); rows of the same date
\* come in the order of created_at, which the store assigns
RECURSIVE SortByDateDesc(_)
SortByDateDesc(rows) ==
  IF rows = {} THEN <<>>
  ELSE LET r == CHOOSE x \in rows :
                  \A y \in rows : x.transaction_date >= y.transaction_date
       IN <<r>> \o SortByDateDesc(rows \ {r})

\* t.categories?.name, t.accounts?.name: the name of the row the link embeds,
\* undefined when the link is null or the row is not among those the caller reads
EmbeddedName(table, id) ==
  IF id \in DOMAIN table THEN SomeText(table[id].name) ELSE NullText

RecentLimit == 5

\* the Dashboard's recent transactions: recentRes.data.map(...)
formatRecent(t) ==
  [id |-> t.id, amount |-> t.amount, type |-> t.type, merchant |-> t.merchant,
   category_name |-> OrElse(EmbeddedName(categories, t.category_id), Uncategorized),
   transaction_date |-> t.transaction_date,
   account_name |-> OrElse(EmbeddedName(accounts, t.account_id), Unknown)]

\* .order('transaction_date', { ascending: false }).limit(5)
RecentQuery == Limit(SortByDateDesc(transactions), RecentLimit)

loadDashboardData(order, okA, okT, okR, okS, okB) ==
  /\ currentView = "dashboard"
  /\ dash.phase = "mounted"
  /\ order \in Orders(ActiveAccountIds)
  /\ LET accountsData == [i \in 1..Len(order) |-> [balance |-> accounts[order[i]].balance]]
         txnData == [i \in 1..Len(SetToSeq(MonthTransactions)) |->
                       Project(SetToSeq(MonthTransactions)[i], {"amount", "type"})]
         income == Reduce(Filter(txnData, "type", "income"), "amount")
         expense == Reduce(Filter(txnData, "type", "expense"), "amount")
         s1 == IF okA THEN [stats EXCEPT !.totalBalance = Reduce(accountsData, "balance")]
               ELSE stats
         s2 == IF okT
               THEN [s1 EXCEPT !.monthlyIncome = income, !.monthlyExpense = expense,
                               !.savingsRate = Max0(savingsRate(income, expense))]
               ELSE s1
         todo == IF okB THEN ActiveBudgets ELSE <<>>
     IN /\ stats' = s2
        /\ dash' = [phase |-> IF todo = <<>> THEN "loaded" ELSE "budgets",
                    todo |-> todo, alerts |-> <<>>, computed |-> <<>>,
                    failed |-> {},
                    accountsOk |-> okA, transactionsOk |-> okT, budgetsOk |-> okB]
        /\ budgetAlerts' = IF okB /\ todo = <<>> THEN <<>> ELSE budgetAlerts
        /\ recentTransactions' =
             IF okR THEN [i \in 1..Len(RecentQuery) |-> formatRecent(RecentQuery[i])]
             ELSE recentTransactions
        /\ upcomingSubscriptions' = IF okS THEN UpcomingQuery ELSE upcomingSubscriptions
  /\ UNCHANGED <<storeVars, auxVars, modalVars, currentView, acctView,
                 ledgerVars, pageVars, rlsVars>>

\* Dashboard: one round of the budget loop; after the last one setBudgetAlerts
\* and setLoading(false)
BudgetLoopStep(ok) ==
  /\ dash.phase = "budgets"
  /\ LET budget == Head(dash.todo)
         spent == Spent(budget, ok)
         percentage == Times(Div(spent, budget.amount), 100)
         alerts == IF GreaterEq(percentage, AlertThreshold)
                   THEN Append(dash.alerts,
                               [id |-> budget.id, spent |-> spent,
                                limit |-> budget.amount, percentage |-> percentage])
                   ELSE dash.alerts
         rest == Tail(dash.todo)
     IN /\ dash' = [dash EXCEPT !.todo = rest, !.alerts = alerts,
                     !.computed = Append(@, [id |-> budget.id, spent |-> spent,
                                             percentage |-> percentage]),
                     !.failed = IF ok THEN @ ELSE @ \cup {budget.id},
                     !.phase = IF rest = <<>> THEN "loaded" ELSE "budgets"]
        /\ budgetAlerts' = IF rest = <<>> THEN alerts ELSE budgetAlerts
  /\ UNCHANGED <<storeVars, auxVars, modalVars, currentView, extVars, stats, acctView>>

\* Accounts: loadAccounts; on an error it logs and returns before setLoading(false)
loadAccounts(order, ok) ==
  /\ currentView = "accounts"
  /\ acctView.fetch = "none"
  /\ order \in Orders(ActiveAccountIds)
  /\ acctView' =
       IF ok
       THEN [accounts |-> [i \in 1..Len(order) |->
                             [id |-> order[i], balance |-> accounts[order[i]].balance]],
             loading |-> FALSE, fetch |-> "ok"]
       ELSE [acctView EXCEPT !.fetch = "error"]
  /\ UNCHANGED <<storeVars, auxVars, modalVars, currentView, extVars, stats, budgetAlerts, dash>>

\* Accounts: totalBalance = accounts.reduce((sum, acc) => sum + Number(acc.balance), 0)
totalBalance == Reduce(acctView.accounts, "balance")

HoursPerDay == 24

\* Math.ceil(n / d) for d > 0
Ceil(n, d) == 0 - ((0 - n) \div d)

\* mutant: an overdue subscription is shown as due in 0 days
daysUntilClamped(sub) ==
  IF Ceil(sub.next_billing_date * HoursPerDay - clock, HoursPerDay) < 0 THEN 0
  ELSE Ceil(sub.next_billing_date * HoursPerDay - clock, HoursPerDay)

\* Dashboard: daysUntil = Math.ceil((new Date(sub.next_billing_date).getTime()
\*   - new Date().getTime()) / (1000 * 60 * 60 * 24)); a date parses as 00:00 UTC
daysUntil(sub) == Ceil(sub.next_billing_date * HoursPerDay - clock, HoursPerDay)

\* Dashboard: the "Due in N days" lines, one per upcoming subscription
DueLines ==
  [i \in 1..Len(upcomingSubscriptions) |->
     [id |-> upcomingSubscriptions[i].id, days |-> daysUntil(upcomingSubscriptions[i])]]

\* ------------------------------------------------- the Transactions view
\* mutant: the fallbacks are applied the other way round
formatTransactionSwapped(t) ==
  [id |-> t.id, amount |-> t.amount, type |-> t.type, merchant |-> t.merchant,
   description |-> t.description, transaction_date |-> t.transaction_date,
   category_name |-> OrElse(EmbeddedName(categories, t.category_id), Unknown),
   account_name |-> OrElse(EmbeddedName(accounts, t.account_id), Uncategorized)]

\* the row of the list: data.map((t) => ({ ..., category_name:
\* t.categories?.name || 'Uncategorized', account_name: t.accounts?.name || 'Unknown' }))
formatTransaction(t) ==
  [id |-> t.id, amount |-> t.amount, type |-> t.type, merchant |-> t.merchant,
   description |-> t.description, transaction_date |-> t.transaction_date,
   category_name |-> OrElse(EmbeddedName(categories, t.category_id), Uncategorized),
   account_name |-> OrElse(EmbeddedName(accounts, t.account_id), Unknown)]

\* Transactions: loadTransactions; on an error it logs and returns before
\* setLoading(false)
loadTransactions(ok) ==
  /\ currentView = "transactions"
  /\ txnView.fetch = "none"
  /\ txnView' =
       IF ok
       THEN [txnView EXCEPT
               !.transactions = [i \in 1..Len(SortByDateDesc(transactions)) |->
                                   formatTransaction(SortByDateDesc(transactions)[i])],
               !.loading = FALSE, !.fetch = "ok"]
       ELSE [txnView EXCEPT !.fetch = "error"]
  /\ UNCHANGED <<storeVars, auxVars, modalVars, currentView, viewVars, ledgerVars, rlsVars,
                 loansView, showAddModal, upcomingSubscriptions, recentTransactions>>

\* the search box and the type filter, rendered once the list has loaded
setSearchTerm(term) ==
  /\ currentView = "transactions"
  /\ ~txnView.loading
  /\ txnView' = [txnView EXCEPT !.searchTerm = term]
  /\ UNCHANGED <<storeVars, auxVars, modalVars, currentView, viewVars, ledgerVars, rlsVars,
                 loansView, showAddModal, upcomingSubscriptions, recentTransactions>>

setFilterType(filter) ==
  /\ currentView = "transactions"
  /\ ~txnView.loading
  /\ txnView' = [txnView EXCEPT !.filterType = filter]
  /\ UNCHANGED <<storeVars, auxVars, modalVars, currentView, viewVars, ledgerVars, rlsVars,
                 loansView, showAddModal, upcomingSubscriptions, recentTransactions>>

\* mutant: the texts of the row are compared as they are stored
matchesSearchCaseSensitive(t) ==
  \/ ~t.merchant.isNull /\ includes(t.merchant.value, toLowerCase(txnView.searchTerm))
  \/ includes(t.category_name, toLowerCase(txnView.searchTerm))
  \/ ~t.description.isNull /\ includes(t.description.value, toLowerCase(txnView.searchTerm))

\* t.merchant?.toLowerCase().includes(searchTerm.toLowerCase()) || ... : a null
\* merchant or description yields undefined, which counts as no match
matchesSearch(t) ==
  \/ ~t.merchant.isNull
       /\ includes(toLowerCase(t.merchant.value), toLowerCase(txnView.searchTerm))
  \/ includes(toLowerCase(t.category_name), toLowerCase(txnView.searchTerm))
  \/ ~t.description.isNull
       /\ includes(toLowerCase(t.description.value), toLowerCase(txnView.searchTerm))

matchesFilter(t) == txnView.filterType = "all" \/ t.type = txnView.filterType

filteredTransactions ==
  SelectSeq(txnView.transactions, LAMBDA t : matchesSearch(t) /\ matchesFilter(t))

totalIncome == Reduce(Filter(filteredTransactions, "type", "income"), "amount")
totalExpense == Reduce(Filter(filteredTransactions, "type", "expense"), "amount")

\* ------------------------------------------------------- the Loans view
\* Loans: loadLoans; an error is logged and the loading flag cleared
loadLoans(ok) ==
  /\ currentView = "loans"
  /\ loansView.fetch = "none"
  /\ loansView' =
       IF ok THEN [loans |-> SetToSeq(loans), loading |-> FALSE, fetch |-> "ok"]
       ELSE [loansView EXCEPT !.loading = FALSE, !.fetch = "error"]
  /\ UNCHANGED <<storeVars, auxVars, modalVars, currentView, viewVars, ledgerVars, rlsVars,
                 txnView, showAddModal, upcomingSubscriptions, recentTransactions>>

\* the calendar month new Date() falls in, in the browser's time zone
ThisYear == 2026
ThisMonth == 10          \* getMonth() counts from 0: November

\* new Date('YYYY-MM-DD') is 00:00 UTC of that day; getFullYear() and getMonth()
\* read it in the browser's zone, where west of UTC it is still the day before
LocalMonthOf(date) ==
  IF tz < 0 /\ date.day = 1
  THEN IF date.month = 0 THEN [year |-> date.year - 1, month |-> 11]
       ELSE [year |-> date.year, month |-> date.month - 1]
  ELSE [year |-> date.year, month |-> date.month]

\* a nullable column or result: null, or a value
Null == [isNull |-> TRUE, value |-> 0]
NotNull(v) == [isNull |-> FALSE, value |-> v]
NullDate == [isNull |-> TRUE, value |-> [year |-> 0, month |-> 0, day |-> 0]]

\* getMonthsRemaining(endDate)
getMonthsRemaining(endDate) ==
  IF endDate.isNull THEN Null
  ELSE LET months == (LocalMonthOf(endDate.value).year - ThisYear) * 12
                       + (LocalMonthOf(endDate.value).month - ThisMonth)
       IN NotNull(IF months < 0 THEN 0 ELSE months)

\* mutant: the share still owed instead of the share paid off
loanProgressOwed(loan) ==
  Times(Div(loan.remaining_amount, loan.principal_amount), 100)

\* loanProgress = ((principal_amount - remaining_amount) / principal_amount) * 100
loanProgress(loan) ==
  Times(Div(loan.principal_amount - loan.remaining_amount, loan.principal_amount), 100)

\* x.toFixed(0): the nearest integer, halves away from zero; Infinity and NaN
\* are written out as such
toFixed0(r) ==
  IF r.kind # "fin" THEN r
  ELSE LET n == (2 * Abs(r.num) + r.den) \div (2 * r.den)
       IN Fin(IF r.num < 0 THEN 0 - n ELSE n)

\* Math.min(r, k)
MathMin(r, k) ==
  IF r.kind = "nan" \/ r.kind = "-inf" THEN r
  ELSE IF r.kind = "inf" THEN Fin(k)
  ELSE IF r.num > k * r.den THEN Fin(k) ELSE r

\* Loans: the cards that are rendered, one per loan (none while loading)
LoanCards ==
  IF loansView.loading THEN <<>>
  ELSE [i \in 1..Len(loansView.loans) |->
          LET loan == loansView.loans[i]
              monthsRemaining == getMonthsRemaining(loan.end_date)
          IN [id |-> loan.id,
              progressText |-> toFixed0(loanProgress(loan)),
              barWidth |-> MathMin(loanProgress(loan), 100),
              monthsRemaining |-> monthsRemaining,
              monthsText |-> IF monthsRemaining.isNull THEN "none"
                             ELSE IF monthsRemaining.value = 0 THEN "Completed"
                             ELSE "months left"]]

\* ---------------------------------------------- stores the views load from
MaxTxns == 3             \* transaction rows in a store
MaxBudgets == 2          \* budget rows in a store

DashAccountIds == AccountIds \cup {"a3"}
Balances == {0 - 50, 250, 1000}
LedgerAmounts == {0 - 50, 2000, 3000, 5000}
RowTypes == {"income", "expense", "transfer"}   \* CHECK (type IN (...))
Dates == {0 - 1, 0, Today, Today + 1}
Categories == {NullId, "food"}
Thresholds == {50, 80}                          \* alert_at_percentage

Txn(i, type, amount, date, category) ==
  [id |-> i, account_id |-> "a1", category_id |-> category, amount |-> amount,
   type |-> type, merchant |-> NullText, description |-> NullText,
   transaction_date |-> date]

DefaultAccounts ==
  [a \in AccountIds |-> [balance |-> OpeningBalance, is_active |-> TRUE,
                         name |-> AccountNames[a]]]

\* the kinds of transaction row a store is filled with, as <<type, amount, date>>
LedgerKinds == SetToSeq(RowTypes \X LedgerAmounts \X {Today})
DatedKinds == SetToSeq(RowTypes \X {100} \X Dates)

\* the stores of at most MaxTxns rows of the given kinds; row ids are
\* arbitrary, so each multiset of kinds is taken once (kinds in index order)
Ledgers(kinds) ==
  UNION { { {Txn(i, kinds[f[i]][1], kinds[f[i]][2], kinds[f[i]][3], NullId) : i \in 1..n} :
              f \in {g \in [1..n -> 1..Len(kinds)] :
                       \A i \in 1..n : i < n => g[i] <= g[i + 1]} } :
          n \in 0..MaxTxns }

\* stores that differ in their accounts
AccountStores ==
  /\ \E f \in [DashAccountIds -> [balance : Balances, is_active : BOOLEAN]] :
       accounts = [a \in DashAccountIds |->
                     [balance |-> f[a].balance, is_active |-> f[a].is_active,
                      name |-> AccountNames[a]]]
  /\ transactions = {}
  /\ budgets = {}
  /\ tz = 0

\* stores that differ in the types and amounts of this month's transactions
LedgerStores ==
  /\ accounts = DefaultAccounts
  /\ transactions \in Ledgers(LedgerKinds)
  /\ budgets = {}
  /\ tz = 0

\* stores that differ in the dates of their transactions, seen from browsers
\* west of, at and east of UTC
DatedStores ==
  /\ accounts = DefaultAccounts
  /\ transactions \in Ledgers(DatedKinds)
  /\ budgets = {}
  /\ tz \in {0 - 1, 0, 1}

\* this month's expenses the budgets are measured against
BudgetLedger ==
  { Txn(1, "expense", 600, Today, "food"),
    Txn(2, "expense", 250, Today, "food"),
    Txn(3, "expense", 100, Today, "rent") }

\* the kinds of budget: limit, category, active flag, alert_at_percentage
BudgetKinds ==
  ({1000} \X Categories \X BOOLEAN \X Thresholds) \cup {<<0, NullId, TRUE, 80>>}

\* stores that differ in their budgets
BudgetStores ==
  /\ accounts = DefaultAccounts
  /\ transactions \in SUBSET BudgetLedger
  /\ \E m \in 0..MaxBudgets : \E g \in [1..m -> BudgetKinds] :
       budgets = {[id |-> i, amount |-> g[i][1], category_id |-> g[i][2],
                   is_active |-> g[i][3], alert_at_percentage |-> g[i][4]] : i \in 1..m}
  /\ tz = 0

\* the subscription rows a store is filled with
SubscriptionRows ==
  { [id |-> 1, amount |-> 100, next_billing_date |-> 0 - 1, is_active |-> TRUE],
    [id |-> 2, amount |-> 100, next_billing_date |-> Today, is_active |-> TRUE],
    [id |-> 3, amount |-> 100, next_billing_date |-> Today + 1, is_active |-> TRUE],
    [id |-> 4, amount |-> 100, next_billing_date |-> Today + 2, is_active |-> TRUE],
    [id |-> 5, amount |-> 100, next_billing_date |-> 0, is_active |-> FALSE] }

\* the instants of today at which the Dashboard is looked at: 00:00, 06:00, 23:00 UTC
Clocks == {Today * HoursPerDay, Today * HoursPerDay + 6, Today * HoursPerDay + 23}

\* stores that differ in their subscriptions, looked at at different hours
SubscriptionStores ==
  /\ accounts = DefaultAccounts
  /\ transactions = {}
  /\ budgets = {}
  /\ tz = 0
  /\ loans = {}
  /\ subscriptions \in SUBSET SubscriptionRows
  /\ clock \in Clocks

\* the Dashboard is mounted over every store, the Accounts view over the
\* stores that differ in their accounts, the Transactions view over those
\* that differ in the dates of their transactions
DashInit ==
  /\ \/ AccountStores /\ LedgerInit /\ currentView \in {"dashboard", "accounts"}
     \/ /\ LedgerStores \/ BudgetStores
        /\ LedgerInit
        /\ currentView = "dashboard"
     \/ DatedStores /\ LedgerInit /\ currentView \in {"dashboard", "transactions"}
     \/ SubscriptionStores /\ currentView = "dashboard"
  /\ ModalInit
  /\ ViewInit
  /\ PageInit
  /\ AuxInit
  /\ RlsInit

\* every order in which some of the accounts can arrive
ArrivalOrders == UNION {Orders(ids) : ids \in SUBSET DashAccountIds}

DashNext ==
  \/ \E order \in ArrivalOrders, okA, okT, okR, okS, okB \in BOOLEAN :
       loadDashboardData(order, okA, okT, okR, okS, okB)
  \/ \E ok \in BOOLEAN : BudgetLoopStep(ok)
  \/ \E order \in ArrivalOrders, ok \in BOOLEAN : loadAccounts(order, ok)
  \/ \E ok \in BOOLEAN : loadTransactions(ok)

SpecDash == DashInit /\ [][DashNext]_vars

\* ------------------------------------------------ stores of the Loans view
MaxLoans == 2            \* loan rows in a store

Principals == {0, 300, 100000}
Remainings == {0 - 100, 0, 100, 40000, 100000, 150000}
EndDates ==
  { NullDate,
    NotNull([year |-> 2027, month |-> 4, day |-> 1]),     \* six months on, the 1st
    NotNull([year |-> 2027, month |-> 4, day |-> 15]),    \* six months on
    NotNull([year |-> 2027, month |-> 0, day |-> 1]),     \* 1 January
    NotNull([year |-> 2026, month |-> 10, day |-> 20]),   \* this month
    NotNull([year |-> 2026, month |-> 7, day |-> 15]) }   \* past

\* the kinds of loan row, as <<principal_amount, remaining_amount, end_date>>
AmountKinds == SetToSeq(Principals \X Remainings \X {NullDate})
EndDateKinds == SetToSeq({100000} \X {40000} \X EndDates)

\* the stores of at most MaxLoans rows of the given kinds
LoanSets(kinds) ==
  UNION { { {[id |-> i, principal_amount |-> kinds[f[i]][1],
              remaining_amount |-> kinds[f[i]][2], end_date |-> kinds[f[i]][3]] :
               i \in 1..n} :
              f \in {g \in [1..n -> 1..Len(kinds)] :
                       \A i \in 1..n : i < n => g[i] <= g[i + 1]} } :
          n \in 0..MaxLoans }

\* the Loans view is mounted over stores that differ in the amounts of their
\* loans, and over stores that differ in the end dates, seen from browsers
\* west of, at and east of UTC
LoansInit ==
  /\ accounts = DefaultAccounts
  /\ transactions = {}
  /\ budgets = {}
  /\ subscriptions = {}
  /\ clock = Today * 24
  /\ \/ loans \in LoanSets(AmountKinds) /\ tz = 0
     \/ loans \in LoanSets(EndDateKinds) /\ tz \in {0 - 1, 0, 1}
  /\ currentView = "loans"
  /\ ModalInit
  /\ ViewInit
  /\ PageInit
  /\ AuxInit
  /\ RlsInit

LoansNext == \E ok \in BOOLEAN : loadLoans(ok)

SpecLoans == LoansInit /\ [][LoansNext]_vars

\* ------------------------------------------------ the four views together
\* any of the four data views is mounted; the response to a fetch that was
\* issued arrives eventually
ViewsInit == DashInit \/ LoansInit

ViewsNext == DashNext \/ LoansNext

SpecViews == ViewsInit /\ [][ViewsNext]_vars /\ WF_vars(ViewsNext)

\* ------------------------------------------------ one browser session
DataViews == {"dashboard", "accounts", "transactions", "loans"}

\* Layout onViewChange -> setCurrentView(view): the view that was shown is
\* unmounted and the new one mounted with its initial state
setCurrentView(view) ==
  /\ view # currentView
  /\ currentView' = view
  /\ stats' = NoStats
  /\ budgetAlerts' = <<>>
  /\ dash' = DashMounted
  /\ acctView' = AcctMounted
  /\ loansView' = LoansMounted
  /\ txnView' = TxnMounted
  /\ showAddModal' = FALSE
  /\ upcomingSubscriptions' = <<>>
  /\ recentTransactions' = <<>>
  /\ UNCHANGED <<storeVars, auxVars, modalVars, ledgerVars, rlsVars>>

\* the Add Account and Add Loan buttons, rendered once the view has loaded
OpenAddModal ==
  /\ \/ currentView = "accounts" /\ ~acctView.loading
     \/ currentView = "loans" /\ ~loansView.loading
  /\ ~showAddModal
  /\ showAddModal' = TRUE
  /\ UNCHANGED <<storeVars, auxVars, modalVars, currentView, viewVars, ledgerVars, rlsVars,
                 loansView, txnView, upcomingSubscriptions, recentTransactions>>

\* mutant: the new account is inserted and every other balance reset to 0
addAccountResetting(id, balance, ok) ==
  /\ currentView = "accounts" /\ showAddModal
  /\ id \notin DOMAIN accounts
  /\ IF ok
     THEN /\ accounts' = [a \in DOMAIN accounts \cup {id} |->
                            IF a = id THEN [balance |-> parseFloat(balance), is_active |-> TRUE,
                                            name |-> AccountNames[id]]
                            ELSE [accounts[a] EXCEPT !.balance = 0]]
          /\ acctView' = [acctView EXCEPT !.fetch = "none"]
          /\ showAddModal' = FALSE
     ELSE UNCHANGED <<accounts, acctView, showAddModal>>
  /\ UNCHANGED <<transactions, budgets, tz, auxVars, modalVars, currentView, stats, budgetAlerts,
                 dash, ledgerVars, rlsVars, loansView, txnView, upcomingSubscriptions, recentTransactions>>

\* AddAccountModal.handleSubmit: insert { balance: parseFloat(balance) || 0 };
\* then onSuccess (loadAccounts again) and onClose, or the alert
addAccount(id, balance, ok) ==
  /\ currentView = "accounts" /\ showAddModal
  /\ id \notin DOMAIN accounts
  /\ IF ok
     THEN /\ accounts' = [a \in DOMAIN accounts \cup {id} |->
                            IF a = id THEN [balance |-> parseFloat(balance), is_active |-> TRUE,
                                            name |-> AccountNames[id]]
                            ELSE accounts[a]]
          /\ acctView' = [acctView EXCEPT !.fetch = "none"]
          /\ showAddModal' = FALSE
     ELSE UNCHANGED <<accounts, acctView, showAddModal>>
  /\ UNCHANGED <<transactions, budgets, tz, auxVars, modalVars, currentView, stats, budgetAlerts,
                 dash, ledgerVars, rlsVars, loansView, txnView, upcomingSubscriptions, recentTransactions>>

\* AddLoanModal.handleSubmit: insert, then onSuccess (loadLoans again) and
\* onClose, or the alert
addLoan(principal, remaining, ok) ==
  /\ currentView = "loans" /\ showAddModal
  /\ Cardinality(loans) < MaxLoans
  /\ IF ok
     THEN /\ loans' = loans \cup {[id |-> Cardinality(loans) + 1,
                                    principal_amount |-> parseFloat(principal),
                                    remaining_amount |-> parseFloat(remaining),
                                    end_date |-> NullDate]}
          /\ loansView' = [loansView EXCEPT !.fetch = "none"]
          /\ showAddModal' = FALSE
     ELSE UNCHANGED <<loans, loansView, showAddModal>>
  /\ UNCHANGED <<storeVars, auxVars, modalVars, currentView, viewVars, subscriptions, clock,
                 rlsVars, txnView, upcomingSubscriptions, recentTransactions>>

\* what the session types into a required number input
Numerals == {t \in AmountTexts : ~IsEmptyText(t) /\ t.sign = 1}

MaxSessionSubmits == 1   \* transaction submissions of the session

\* one session: it switches views, lets them
\* load, adds an account and loans, and submits transactions
SessionNext ==
  \/ \E view \in DataViews : setCurrentView(view)
  \/ OpenAddModal
  \/ \E id \in DashAccountIds, balance \in Numerals, ok \in BOOLEAN :
       addAccount(id, balance, ok)
  \/ \E principal, remaining \in Numerals, ok \in BOOLEAN :
       addLoan(principal, remaining, ok)
  \/ OpenModal("s1")
  \/ CloseModal("s1")
  \/ \E user \in BOOLEAN, a \in AccountIds \cup {""}, amt \in Numerals, t \in TxnTypes :
       submits < MaxSessionSubmits /\ handleSubmit("s1", user, a, amt, t)
  \/ \E ok \in BOOLEAN : InsertResponse("s1", ok)
  \/ \E ok \in BOOLEAN : SelectResponse("s1", ok)
  \/ \E ok \in BOOLEAN : UpdateResponse("s1", ok)
  \/ ViewsNext

\* the store of Init with one budget in it
SessionInit ==
  /\ accounts = DefaultAccounts
  /\ transactions = {}
  /\ budgets = {[id |-> 1, amount |-> 1000, category_id |-> NullId,
                 is_active |-> TRUE, alert_at_percentage |-> 80]}
  /\ tz = 0
  /\ currentView = "dashboard"
  /\ ModalInit
  /\ ViewInit
  /\ LedgerInit
  /\ PageInit
  /\ AuxInit
  /\ RlsInit

SpecSession == SessionInit /\ [][SessionNext]_vars

\* ------------------------------------------- the row-level policies
MaxRows == 1             \* rows users have inserted, per table

Users == {"A", "B"}
Tables == {"categories", "accounts", "transactions"}

\* the categories the migration inserts: is_system = true, user_id NULL
SystemCategory == [id |-> 0, user_id |-> NullId, is_system |-> TRUE]

SeededDb == [NoDb EXCEPT !["categories"] = {SystemCategory}]

\* FOR SELECT ... USING: permissive policies are OR-ed, so a read passes the
\* "view own" policy or the USING of the "manage own" (FOR ALL) policy
SelectPolicy(table, uid, row) ==
  IF table = "categories"
  THEN (row.user_id = uid \/ row.is_system) \/ (row.user_id = uid /\ ~row.is_system)
  ELSE row.user_id = uid

\* FOR ALL ... USING (...) WITH CHECK (...): the same predicate both times
ManagePolicy(table, uid, row) ==
  IF table = "categories"
  THEN row.user_id = uid /\ ~row.is_system
  ELSE row.user_id = uid

\* id uuid PRIMARY KEY DEFAULT uuid_generate_v4(): an id not in use
FreshId(table) == CHOOSE i \in 1..(MaxRows + 1) : \A r \in db[table] : r.id # i

\* the rows a caller can offer to a table; foreign keys are checked against
\* the whole referenced table, whoever owns the row referred to
OfferedRows(table) ==
  IF table = "categories"
  THEN {[id |-> FreshId(table), user_id |-> o, is_system |-> sys] :
          o \in Users, sys \in BOOLEAN}
  ELSE IF table = "accounts"
  THEN {[id |-> FreshId(table), user_id |-> o] : o \in Users}
  ELSE {[id |-> FreshId(table), user_id |-> o, account_id |-> a.id, category_id |-> c] :
          o \in Users, a \in db["accounts"],
          c \in {x.id : x \in db["categories"]} \cup {0 - 1}}

\* a read by uid: the rows of the table that pass the SELECT policies
rlsSelect(uid, table) ==
  /\ lastRead' = [caller |-> uid, table |-> table,
                  rows |-> {r \in db[table] : SelectPolicy(table, uid, r)}]
  /\ UNCHANGED <<storeVars, auxVars, modalVars, currentView, viewVars, ledgerVars, pageVars,
                 upcomingSubscriptions, recentTransactions, db>>

\* an insert by uid: accepted when the new row passes WITH CHECK
rlsInsert(uid, table, row) ==
  /\ Cardinality({r \in db[table] : r.id # 0}) < MaxRows
  /\ row \in OfferedRows(table)
  /\ ManagePolicy(table, uid, row)
  /\ db' = [db EXCEPT ![table] = @ \cup {row}]
  /\ UNCHANGED <<storeVars, auxVars, modalVars, currentView, viewVars, ledgerVars, pageVars,
                 upcomingSubscriptions, recentTransactions, lastRead>>

\* an update by uid that hands the row to owner: applied when the old row
\* passes USING and the new row passes WITH CHECK
rlsUpdate(uid, table, id, owner) ==
  /\ \E r \in db[table] :
       /\ r.id = id
       /\ ManagePolicy(table, uid, r)
       /\ ManagePolicy(table, uid, [r EXCEPT !.user_id = owner])
       /\ db' = [db EXCEPT ![table] = (@ \ {r}) \cup {[r EXCEPT !.user_id = owner]}]
  /\ UNCHANGED <<storeVars, auxVars, modalVars, currentView, viewVars, ledgerVars, pageVars,
                 upcomingSubscriptions, recentTransactions, lastRead>>

\* the referential actions of a delete, which are carried out whoever owns
\* the referring rows: transactions.account_id ON DELETE CASCADE,
\* transactions.category_id ON DELETE SET NULL
AfterDelete(table, row) ==
  [t \in Tables |->
     IF t = table THEN db[t] \ {row}
     ELSE IF t = "transactions" /\ table = "accounts"
     THEN {x \in db[t] : x.account_id # row.id}
     ELSE IF t = "transactions" /\ table = "categories"
     THEN {IF x.category_id = row.id THEN [x EXCEPT !.category_id = 0 - 1] ELSE x :
             x \in db[t]}
     ELSE db[t]]

\* a delete by uid: applied to the rows that pass USING
rlsDelete(uid, table, id) ==
  /\ \E r \in db[table] :
       /\ r.id = id
       /\ ManagePolicy(table, uid, r)
       /\ db' = AfterDelete(table, r)
  /\ UNCHANGED <<storeVars, auxVars, modalVars, currentView, viewVars, ledgerVars, pageVars,
                 upcomingSubscriptions, recentTransactions, lastRead>>

RlsStoreInit ==
  /\ accounts = DefaultAccounts
  /\ transactions = {}
  /\ budgets = {}
  /\ tz = 0
  /\ currentView = "dashboard"
  /\ ModalInit
  /\ ViewInit
  /\ LedgerInit
  /\ PageInit
  /\ AuxInit
  /\ db = SeededDb
  /\ lastRead = NoRead

\* every row a caller can name in a request
RowIds == 0..(MaxRows + 1)

RlsNext ==
  \/ \E uid \in Users, table \in Tables : rlsSelect(uid, table)
  \/ \E uid \in Users, table \in Tables, o \in Users \cup {NullId}, sys \in BOOLEAN,
        a \in RowIds, c \in RowIds \cup {0 - 1} :
       rlsInsert(uid, table,
                 IF table = "categories"
                 THEN [id |-> FreshId(table), user_id |-> o, is_system |-> sys]
                 ELSE IF table = "accounts"
                 THEN [id |-> FreshId(table), user_id |-> o]
                 ELSE [id |-> FreshId(table), user_id |-> o, account_id |-> a,
                       category_id |-> c])
  \/ \E uid \in Users, table \in Tables, id \in RowIds, owner \in Users :
       rlsUpdate(uid, table, id, owner)
  \/ \E uid \in Users, table \in Tables, id \in RowIds : rlsDelete(uid, table, id)

SpecRLS == RlsStoreInit /\ [][RlsNext]_vars

\* ------------------------------------------- the schema script's store
MaxSeeds == 2            \* applications of the seed step
MaxLinked == 1           \* rows per table that link to a category

\* INSERT INTO categories (name, type, icon, color, is_system, keywords) VALUES ...
SeedRows ==
  << [name |-> "Salary", type |-> "income"],
     [name |-> "Freelance", type |-> "income"],
     [name |-> "Business", type |-> "income"],
     [name |-> "Investment", type |-> "income"],
     [name |-> "Other Income", type |-> "income"],
     [name |-> "Food & Dining", type |-> "expense"],
     [name |-> "Groceries", type |-> "expense"],
     [name |-> "Transportation", type |-> "expense"],
     [name |-> "Shopping", type |-> "expense"],
     [name |-> "Entertainment", type |-> "expense"],
     [name |-> "Bills & Utilities", type |-> "expense"],
     [name |-> "Healthcare", type |-> "expense"],
     [name |-> "Education", type |-> "expense"],
     [name |-> "Rent", type |-> "expense"],
     [name |-> "Insurance", type |-> "expense"],
     [name |-> "Travel", type |-> "expense"],
     [name |-> "Personal Care", type |-> "expense"],
     [name |-> "Other", type |-> "expense"] >>

\* the unique constraints of categories: the primary key and nothing else
CategoryKeys == {{"id"}}

\* a row conflicts when it agrees with a stored row on every column of some
\* unique constraint
Conflicts(rows, row) ==
  \E key \in CategoryKeys : \E r \in rows : \A col \in key : r[col] = row[col]

\* the row the insert builds from a VALUES entry: id DEFAULT uuid_generate_v4()
\* (a value no row has had), user_id and parent_id NULL, is_system true
SeedCategory(i) ==
  [id |-> schema.nextId + i - 1, user_id |-> Null, name |-> SeedRows[i].name,
   type |-> SeedRows[i].type, parent_id |-> Null, is_system |-> TRUE]

\* the seed step: INSERT ... ON CONFLICT DO NOTHING
seedCategories ==
  /\ schema.seeds < MaxSeeds
  /\ LET offered == {SeedCategory(i) : i \in 1..Len(SeedRows)}
         kept == {row \in offered : ~Conflicts(schema.categories, row)}
     IN schema' = [schema EXCEPT !.categories = @ \cup kept,
                                 !.nextId = @ + Len(SeedRows),
                                 !.seeds = @ + 1]
  /\ UNCHANGED <<storeVars, modalVars, currentView, viewVars, extVars, categories, formVars>>

LinkedTables == {"transactions", "budgets", "subscriptions"}

\* category ids the linking rows and the deletions are drawn from
SampleIds == 1..3

\* a row of transactions, budgets or subscriptions is inserted; its
\* category_id REFERENCES categories(id), or is NULL
insertLinked(table, category) ==
  /\ Cardinality(schema[table]) < MaxLinked
  /\ category.isNull \/ \E c \in schema.categories : c.id = category.value
  /\ schema' = [schema EXCEPT ![table] = @ \cup {[id |-> schema.nextId,
                                                   category_id |-> category]},
                              !.nextId = @ + 1]
  /\ UNCHANGED <<storeVars, modalVars, currentView, viewVars, extVars, categories, formVars>>

\* the referential action of each category_id column
OnDeleteCategory ==
  [transactions |-> "SET NULL", budgets |-> "CASCADE", subscriptions |-> "SET NULL"]

\* what a table holds once category id is gone
AfterCategoryDelete(table, id) ==
  IF OnDeleteCategory[table] = "CASCADE"
  THEN {r \in schema[table] : r.category_id # NotNull(id)}
  ELSE {IF r.category_id = NotNull(id) THEN [r EXCEPT !.category_id = Null] ELSE r :
          r \in schema[table]}

\* DELETE FROM categories WHERE id = ...; parent_id is ON DELETE SET NULL
deleteCategory(id) ==
  /\ \E c \in schema.categories : c.id = id
  /\ schema' = [schema EXCEPT
       !.categories = {IF c.parent_id = NotNull(id) THEN [c EXCEPT !.parent_id = Null] ELSE c :
                         c \in {d \in schema.categories : d.id # id}},
       !.transactions = AfterCategoryDelete("transactions", id),
       !.budgets = AfterCategoryDelete("budgets", id),
       !.subscriptions = AfterCategoryDelete("subscriptions", id)]
  /\ UNCHANGED <<storeVars, modalVars, currentView, viewVars, extVars, categories, formVars>>

SchemaNext ==
  \/ seedCategories
  \/ \E table \in LinkedTables, category \in {Null} \cup {NotNull(i) : i \in SampleIds} :
       insertLinked(table, category)
  \/ \E id \in SampleIds : deleteCategory(id)

SpecSchema == Init /\ [][SchemaNext]_vars

\* ------------------------------------------- the lists of transactions
MaxListed == 2           \* transaction rows in a store of the lists

\* the categories of the list stores: one more, whose name is the empty string
ListCategories ==
  DefaultCategories @@ "misc" :> [name |-> <<>>, type |-> "expense"]

\* the rows the list stores are filled with; account b1 is not among the
\* accounts the caller reads
ListRows ==
  { [id |-> 1, account_id |-> "a1", category_id |-> "salary", amount |-> 5000,
     type |-> "income", merchant |-> SomeText(<< "A", "c", "m", "e" >>),
     description |-> NullText, transaction_date |-> Today],
    [id |-> 2, account_id |-> "a1", category_id |-> "food", amount |-> 150,
     type |-> "expense", merchant |-> SomeText(<< "C", "a", "f", "e" >>),
     description |-> SomeText(<< "T", "e", "a" >>), transaction_date |-> 0],
    [id |-> 3, account_id |-> "a1", category_id |-> NullId, amount |-> 20,
     type |-> "expense", merchant |-> NullText,
     description |-> NullText, transaction_date |-> Today],
    [id |-> 4, account_id |-> "b1", category_id |-> "rent", amount |-> 300,
     type |-> "transfer", merchant |-> NullText,
     description |-> SomeText(<< "t", "e", "a", "m" >>), transaction_date |-> 0],
    [id |-> 5, account_id |-> "a2", category_id |-> "misc", amount |-> 40,
     type |-> "expense", merchant |-> SomeText(<< "C", "A", "B" >>),
     description |-> NullText, transaction_date |-> Today],
    [id |-> 6, account_id |-> "a2", category_id |-> "salary", amount |-> 75,
     type |-> "income", merchant |-> NullText,
     description |-> SomeText(<< "T", "e", "a" >>), transaction_date |-> 0 - 1] }

\* what is typed into the search box
SearchTerms ==
  { <<>>, << "c", "a" >>, << "C", "A" >>, << "t", "e", "a" >>, << "u", "n" >>, << "x" >> }

FilterTypes == {"all", "income", "expense"}

\* the Dashboard or the Transactions view is mounted over a store of at most
\* MaxListed of the rows
ListInit ==
  /\ accounts = DefaultAccounts
  /\ transactions \in {rows \in SUBSET ListRows : Cardinality(rows) <= MaxListed}
  /\ budgets = {}
  /\ tz = 0
  /\ currentView \in {"dashboard", "transactions"}
  /\ ModalInit
  /\ ViewInit
  /\ LedgerInit
  /\ PageInit
  /\ RlsInit
  /\ schema = NoSchema
  /\ categories = ListCategories
  /\ FormInit

ListNext ==
  \/ \E ok \in BOOLEAN : loadTransactions(ok)
  \/ \E term \in SearchTerms : setSearchTerm(term)
  \/ \E filter \in FilterTypes : setFilterType(filter)
  \/ \E order \in ArrivalOrders, okA, okT, okR, okS, okB \in BOOLEAN :
       loadDashboardData(order, okA, okT, okR, okS, okB)

SpecList == ListInit /\ [][ListNext]_vars

\* ------------------------------------------- amounts with two decimals
\* JavaScript numbers are IEEE 754 binary64 values.  Their 53-digit
\* significands do not fit the checker's integers, so a natural number is kept
\* here as the sequence of its binary digits, lowest first, highest digit 1.
RECURSIVE BitsOf(_)
BitsOf(n) == IF n = 0 THEN <<>> ELSE <<n % 2>> \o BitsOf(n \div 2)

RECURSIVE ValueOf(_)
ValueOf(bits) == IF bits = <<>> THEN 0 ELSE Head(bits) + 2 * ValueOf(Tail(bits))

Bit(bits, i) == IF i >= 1 /\ i <= Len(bits) THEN bits[i] ELSE 0

\* the position of the highest digit 1, or 0
Top(bits) ==
  IF \E i \in 1..Len(bits) : bits[i] = 1
  THEN CHOOSE i \in 1..Len(bits) : bits[i] = 1 /\ \A j \in (i + 1)..Len(bits) : bits[j] = 0
  ELSE 0

Trim(bits) ==
  LET digits == SubSeq(bits, 1, Len(bits))
  IN SubSeq(digits, 1, Top(digits))

ShiftLeft(bits, k) == IF bits = <<>> THEN <<>> ELSE [i \in 1..k |-> 0] \o bits

\* the arithmetic goes sixteen digits at a time: limb k of a number, counted
\* from 0, and the number a sequence of limbs denotes
Limb(a, k) == ValueOf([i \in 1..16 |-> Bit(a, 16 * k + i)])

Limbs(a) == (Len(a) + 15) \div 16

FromLimbs(limbs) ==
  LET x == SubSeq(limbs, 1, Len(limbs))
  IN Trim([j \in 1..(16 * Len(x)) |-> (x[(j - 1) \div 16 + 1] \div 2 ^ ((j - 1) % 16)) % 2])

\* the first n limbs of a
ToLimbs(a, n) == SubSeq([k \in 1..n |-> Limb(a, k - 1)], 1, n)

\* the carry of x + y into limb k, for sequences of limbs x and y
RECURSIVE CarryInto(_, _, _)
CarryInto(x, y, k) ==
  IF k = 1 THEN 0 ELSE (x[k - 1] + y[k - 1] + CarryInto(x, y, k - 1)) \div 65536

AddBits(a, b) ==
  LET n == (IF Limbs(a) > Limbs(b) THEN Limbs(a) ELSE Limbs(b)) + 1
      x == ToLimbs(a, n)
      y == ToLimbs(b, n)
  IN FromLimbs([k \in 1..n |-> (x[k] + y[k] + CarryInto(x, y, k)) % 65536])

\* what x - y borrows from limb k
RECURSIVE BorrowFrom(_, _, _)
BorrowFrom(x, y, k) ==
  IF k = 1 THEN 0
  ELSE IF x[k - 1] - y[k - 1] - BorrowFrom(x, y, k - 1) < 0 THEN 1 ELSE 0

\* a - b, for a >= b
SubBits(a, b) ==
  LET n == Limbs(a)
      x == ToLimbs(a, n)
      y == ToLimbs(b, n)
  IN FromLimbs([k \in 1..n |-> (x[k] - y[k] - BorrowFrom(x, y, k) + 65536) % 65536])

LessBits(a, b) ==
  \/ Len(a) < Len(b)
  \/ /\ Len(a) = Len(b)
     /\ \E i \in 1..Len(a) : a[i] < b[i] /\ \A j \in (i + 1)..Len(a) : a[j] = b[j]

\* long division of the limbs x by a small divisor d: what is left of the
\* limbs above limb k
RECURSIVE RemainderAbove(_, _, _)
RemainderAbove(x, d, k) ==
  IF k >= Len(x) THEN 0 ELSE (65536 * RemainderAbove(x, d, k + 1) + x[k + 1]) % d

\* the quotient and the remainder of a by d
DivBits(a, d) ==
  LET x == ToLimbs(a, Limbs(a))
  IN [quotient |-> FromLimbs([k \in 1..Len(x) |->
                               (65536 * RemainderAbove(x, d, k) + x[k]) \div d]),
      remainder |-> RemainderAbove(x, d, 0)]

Precision == 53          \* binary digits of a binary64 significand

\* a binary64 value: sign * significand * 2^exponent, the significand of
\* exactly Precision digits, or zero
Zero64 == [sign |-> 1, significand |-> <<>>, exponent |-> 0]

\* the binary64 value nearest to sign * bits * 2^exponent (plus a non-zero
\* tail below the lowest digit when inexact), ties to the even significand
Round64(sign, bits, exponent, inexact) ==
  LET b == Trim(bits)
      n == Len(b)
      d == n - Precision
      kept == SubSeq(b, d + 1, n)
      half == b[d] = 1
      rest == inexact \/ \E i \in 1..(d - 1) : b[i] = 1
      up == half /\ (rest \/ kept[1] = 1)
      m == IF up THEN AddBits(kept, <<1>>) ELSE kept
  IN IF b = <<>> THEN Zero64
     ELSE IF d <= 0
     THEN [sign |-> sign, significand |-> ShiftLeft(b, 0 - d), exponent |-> exponent + d]
     ELSE IF Len(m) > Precision
     THEN [sign |-> sign, significand |-> SubSeq(m, 2, Len(m)), exponent |-> exponent + d + 1]
     ELSE [sign |-> sign, significand |-> m, exponent |-> exponent + d]

GuardDigits == 60        \* binary digits the decimal quotient is carried to

\* parseFloat of a numeral with two decimals, and JSON.parse of a numeric(15,2)
\* value: the binary64 value nearest to cents / 100
Number64(cents) ==
  LET q == DivBits(ShiftLeft(BitsOf(Abs(cents)), GuardDigits), 100)
  IN Round64(IF cents < 0 THEN 0 - 1 ELSE 1, q.quotient, 0 - GuardDigits, q.remainder # 0)

\* a + b in binary64: the exact sum, rounded once
Plus64(a, b) ==
  LET e == IF a.exponent < b.exponent THEN a.exponent ELSE b.exponent
      x == ShiftLeft(a.significand, a.exponent - e)
      y == ShiftLeft(b.significand, b.exponent - e)
  IN IF a.significand = <<>> THEN b
     ELSE IF b.significand = <<>> THEN a
     ELSE IF a.sign = b.sign THEN Round64(a.sign, AddBits(x, y), e, FALSE)
     ELSE IF LessBits(x, y) THEN Round64(b.sign, SubBits(y, x), e, FALSE)
     ELSE Round64(a.sign, SubBits(x, y), e, FALSE)

\* a - b in binary64
Minus64(a, b) == Plus64(a, [b EXCEPT !.sign = 0 - b.sign])

\* the value a numeric(15, 2) column stores for a binary64 value, in cents:
\* rounded to two decimals, halves away from zero (a sum of two-decimal
\* amounts is nowhere near a half cent, so the digits JSON prints for it
\* round the same way)
Numeric2(v) ==
  LET hundredfold == AddBits(AddBits(ShiftLeft(v.significand, 6), ShiftLeft(v.significand, 5)),
                             ShiftLeft(v.significand, 2))
      d == 0 - v.exponent
      whole == IF d <= 0 THEN ShiftLeft(hundredfold, v.exponent)
               ELSE SubSeq(hundredfold, d + 1, Len(hundredfold))
      cents == IF Bit(hundredfold, d) = 1 THEN AddBits(whole, <<1>>) ELSE whole
  IN v.sign * ValueOf(cents)

\* the variables of the views and of the submission flow, which the steps on
\* the forms below leave alone
mainVars == <<storeVars, modalVars, currentView, viewVars, extVars, schema, categories>>

MaxPosted == 3           \* submissions of amounts with decimals

\* what the amount input holds, in cents: 0.10 and 0.20
CentAmounts == {10, 20}

\* newBalance of handleSubmit, on JavaScript numbers
NewBalance64(type, currentBalance, amount) ==
  IF type = "income" THEN Plus64(currentBalance, amount) ELSE Minus64(currentBalance, amount)

\* AddTransactionModal.handleSubmit from the insert to the write-back, for an
\* amount with two decimals: Number(accountData.balance), parseFloat(amount),
\* the sum or the difference, and the value the balance column keeps of it
submitCents(type, amount, okT, okA, okU) ==
  /\ money.posted < MaxPosted
  /\ money' =
       IF okT /\ okA
       THEN LET computed == NewBalance64(type, Number64(money.balance), Number64(amount))
            IN [balance |-> IF okU THEN Numeric2(computed) ELSE money.balance,
                posted |-> money.posted + 1,
                last |-> <<[type |-> type, amount |-> amount, currentBalance |-> money.balance,
                            newBalance |-> computed, written |-> okU]>>]
       ELSE [money EXCEPT !.posted = @ + 1, !.last = <<>>]
  /\ UNCHANGED <<mainVars, form, addForm>>

MoneyNext ==
  \E type \in TxnTypes, amount \in CentAmounts, okT, okA, okU \in BOOLEAN :
    submitCents(type, amount, okT, okA, okU)

SpecMoney == Init /\ [][MoneyNext]_vars

\* ------------------------------------------ the AddTransactionModal form
MaxAttempts == 2         \* submit events on the form
MaxLoads == 2            \* loadCategories calls that are in flight together

\* the position of a letter in the alphabet
Rank(ch) == CHOOSE i \in 1..26 : UpperCase[i] = ch \/ LowerCase[i] = ch

\* .order('name')
RECURSIVE NameBefore(_, _)
NameBefore(a, b) ==
  IF a = <<>> THEN b # <<>>
  ELSE IF b = <<>> THEN FALSE
  ELSE IF Rank(Head(a)) # Rank(Head(b)) THEN Rank(Head(a)) < Rank(Head(b))
  ELSE NameBefore(Tail(a), Tail(b))

\* from('categories').eq('type', type).or(user_id.eq..., is_system.eq.true)
\* .order('name'): the ids of the categories of one type, by name
CategoryOptions(type) ==
  LET ids == {c \in DOMAIN categories : categories[c].type = type}
  IN [i \in 1..Cardinality(ids) |->
        CHOOSE c \in ids :
          Cardinality({d \in ids : NameBefore(categories[d].name, categories[c].name)}) = i - 1]

\* from('accounts').eq('is_active', true).order('name')
AccountOptions ==
  LET ids == {a \in DOMAIN accounts : accounts[a].is_active}
  IN [i \in 1..Cardinality(ids) |->
        CHOOSE a \in ids :
          Cardinality({d \in ids : NameBefore(accounts[d].name, accounts[a].name)}) = i - 1]

\* the sequence without its i-th element
Without(seq, i) == SubSeq(seq, 1, i - 1) \o SubSeq(seq, i + 1, Len(seq))

\* useEffect(..., [isOpen, user, type]) of a render with the state f:
\* loadAccounts() and loadCategories() are called and close over that render
RunEffect(f) ==
  IF f.isOpen
  THEN [f EXCEPT !.accountsLoading = TRUE,
                 !.categoryLoads = Append(@, [type |-> f.type, categoryId |-> f.categoryId])]
  ELSE f

\* Layout onQuickAdd -> setShowAddTransaction(true), the X and Cancel
\* buttons -> setShowAddTransaction(false); the effect runs when isOpen changed
setShowAddTransaction(show) ==
  /\ form.isOpen # show
  /\ show => ~addForm.mounted                      \* a modal covers the page
  /\ show => Len(form.categoryLoads) < MaxLoads
  /\ form' = RunEffect([form EXCEPT !.isOpen = show])
  /\ UNCHANGED <<mainVars, money, addForm>>

\* the Expense and Income buttons; the effect runs when type changed
setType(type) ==
  /\ form.isOpen
  /\ type # form.type
  /\ Len(form.categoryLoads) < MaxLoads
  /\ form' = RunEffect([form EXCEPT !.type = type])
  /\ UNCHANGED <<mainVars, money, addForm>>

\* the amount input
setAmount(text) ==
  /\ form.isOpen
  /\ text # form.amount
  /\ form' = [form EXCEPT !.amount = text]
  /\ UNCHANGED <<mainVars, money, addForm>>

\* the category select: one of the options rendered from categories
setCategoryId(i) ==
  /\ form.isOpen
  /\ i <= Len(form.categories)
  /\ form.categories[i] # form.categoryId
  /\ form' = [form EXCEPT !.categoryId = form.categories[i]]
  /\ UNCHANGED <<mainVars, money, addForm>>

\* loadAccounts after its await: setAccounts(data) and, when the form had no
\* account, the first one; the calls in flight all bring the same rows and
\* are followed as one
formAccountsLoaded(ok) ==
  /\ form.accountsLoading
  /\ form' = [form EXCEPT !.accountsLoading = FALSE,
                          !.accountId = IF ok /\ Len(AccountOptions) > 0 /\ @ = ""
                                        THEN AccountOptions[1] ELSE @]
  /\ UNCHANGED <<mainVars, money, addForm>>

\* loadCategories after its await, for the i-th call in flight:
\* setCategories(data) and, when categoryId was empty in the render that made
\* the call, setCategoryId(data[0].id)
loadCategories(i, ok) ==
  /\ i <= Len(form.categoryLoads)
  /\ LET call == form.categoryLoads[i]
         data == CategoryOptions(call.type)
     IN form' = [form EXCEPT !.categoryLoads = Without(@, i),
                             !.categories = IF ok THEN data ELSE @,
                             !.categoryId = IF ok /\ Len(data) > 0 /\ call.categoryId = ""
                                            THEN data[1] ELSE @]
  /\ UNCHANGED <<mainVars, money, addForm>>

\* mutant: the guard does not look at the amount
onSubmitAnyAmount(user) ==
  /\ form.isOpen
  /\ ~form.loading
  /\ form.attempts < MaxAttempts
  /\ form' = IF user /\ form.accountId # ""
             THEN [form EXCEPT !.attempts = @ + 1, !.user = user, !.loading = TRUE,
                               !.pending = Append(@, [type |-> form.type,
                                                      amount |-> parseFloat(form.amount),
                                                      accountId |-> form.accountId,
                                                      categoryId |-> IF form.categoryId = ""
                                                                     THEN NullId
                                                                     ELSE form.categoryId,
                                                      date |-> Today, view |-> currentView])]
             ELSE [form EXCEPT !.attempts = @ + 1, !.user = user]
  /\ UNCHANGED <<mainVars, money, addForm>>

\* <form onSubmit={handleSubmit}> with the submit button enabled: the guard,
\* setLoading(true), and the insert issued with the values of this render
onSubmit(user) ==
  /\ form.isOpen
  /\ ~form.loading                                 \* disabled={loading}
  /\ form.attempts < MaxAttempts
  /\ form' = IF user /\ form.accountId # "" /\ ~IsEmptyText(form.amount)
             THEN [form EXCEPT !.attempts = @ + 1, !.user = user, !.loading = TRUE,
                               !.pending = Append(@, [type |-> form.type,
                                                      amount |-> parseFloat(form.amount),
                                                      accountId |-> form.accountId,
                                                      categoryId |-> IF form.categoryId = ""
                                                                     THEN NullId
                                                                     ELSE form.categoryId,
                                                      date |-> Today, view |-> currentView])]
             ELSE [form EXCEPT !.attempts = @ + 1, !.user = user]   \* return
  /\ UNCHANGED <<mainVars, money, addForm>>

\* window.location.reload(): the page starts again, the modal with it
ReloadedForm == [FormMounted EXCEPT !.attempts = form.attempts, !.user = form.user]

\* handleSubmit after its first await, for the i-th submission in flight: the
\* insert's result, the re-read and the write-back, then onSuccess, resetForm
\* and onClose, or the alert; finally setLoading(false)
submitDone(i, okT, okA, okU) ==
  /\ i <= Len(form.pending)
  /\ LET r == form.pending[i]
         reloads == r.view \in ReloadViews
     IN IF okT
        THEN /\ transactions' = transactions \cup {TxnRow(r)}
             /\ accounts' = IF okA /\ okU
                            THEN [accounts EXCEPT ![r.accountId].balance =
                                    NewBalance(r.type, @, r.amount)]
                            ELSE accounts
             /\ onSuccess(r.view)
             /\ form' = IF reloads THEN ReloadedForm
                        ELSE [form EXCEPT !.pending = Without(@, i), !.isOpen = FALSE,
                                          !.amount = FormMounted.amount, !.loading = FALSE]
             /\ addForm' = IF reloads THEN NoAddForm ELSE addForm
        ELSE /\ form' = [form EXCEPT !.pending = Without(@, i), !.loading = FALSE]
             /\ UNCHANGED <<transactions, accounts, sessionVars, addForm>>
  /\ UNCHANGED <<budgets, tz, modalVars, ledgerVars, rlsVars, schema, categories, money>>

\* --------------------------------- the AddAccountModal and AddLoanModal
MaxAdds == 2             \* submissions of the add modals that are in flight together

\* the views that render an add modal: Accounts the AddAccountModal, Loans
\* the AddLoanModal
AddViews == {"accounts", "loans"}

\* {showAddModal && <AddAccountModal .../>}: the instance goes with its
\* state when the modal is closed; a submission it had in flight carries on
Unmounted(f) ==
  [f EXCEPT !.mounted = FALSE, !.loading = FALSE, !.pending = 0, !.orphans = @ + f.pending]

\* the Add Account and Add Loan buttons -> setShowAddModal(true), the X and
\* Cancel buttons -> setShowAddModal(false); a modal covers the page, so one
\* is opened only while the other is closed
setShowAddModal(show) ==
  /\ currentView \in AddViews
  /\ addForm.mounted # show
  /\ show => ~form.isOpen
  /\ addForm' = IF show THEN [addForm EXCEPT !.mounted = TRUE] ELSE Unmounted(addForm)
  /\ UNCHANGED <<mainVars, money, form>>

\* mutant: setLoading(true) is missing
addSubmitNoLoading(user) ==
  /\ addForm.mounted
  /\ ~addForm.loading
  /\ addForm.pending + addForm.orphans < MaxAdds
  /\ addForm' = IF user THEN [addForm EXCEPT !.pending = @ + 1] ELSE addForm
  /\ UNCHANGED <<mainVars, money, form>>

\* AddAccountModal.handleSubmit and AddLoanModal.handleSubmit up to the await:
\* if (!user) return; setLoading(true); the insert is issued
addSubmit(user) ==
  /\ addForm.mounted
  /\ ~addForm.loading                              \* disabled={loading}
  /\ addForm.pending + addForm.orphans < MaxAdds
  /\ addForm' = IF user THEN [addForm EXCEPT !.loading = TRUE, !.pending = @ + 1]
                ELSE addForm                       \* return
  /\ UNCHANGED <<mainVars, money, form>>

\* the insert of the rendered instance completes: onSuccess and onClose, or
\* the alert; finally setLoading(false)
addDone(ok) ==
  /\ addForm.pending > 0
  /\ addForm' = IF ok THEN Unmounted([addForm EXCEPT !.pending = @ - 1])
                ELSE [addForm EXCEPT !.pending = @ - 1, !.loading = FALSE]
  /\ UNCHANGED <<mainVars, money, form>>

\* the insert of an instance that is gone completes: its onClose still sets
\* showAddModal to false
orphanDone(ok) ==
  /\ addForm.orphans > 0
  /\ addForm' = IF ok THEN Unmounted([addForm EXCEPT !.orphans = @ - 1])
                ELSE [addForm EXCEPT !.orphans = @ - 1]
  /\ UNCHANGED <<mainVars, money, form>>

\* what the form's amount input is given: nothing, or a numeral
FormAmounts == {t \in AmountTexts : t.sign = 1}

FormNext ==
  \/ \E show \in BOOLEAN : setShowAddTransaction(show)
  \/ \E type \in TxnTypes : setType(type)
  \/ \E text \in FormAmounts : setAmount(text)
  \/ \E i \in 1..2 : setCategoryId(i)
  \/ \E ok \in BOOLEAN : formAccountsLoaded(ok)
  \/ \E i \in 1..MaxLoads, ok \in BOOLEAN : loadCategories(i, ok)
  \/ form.attempts < MaxSessionSubmits /\ onSubmit(TRUE)
  \/ \E i \in 1..MaxAttempts, okT \in BOOLEAN : submitDone(i, okT, TRUE, TRUE)

\* the store of Init, the page on one of its views
FormSpecInit ==
  /\ accounts = DefaultAccounts
  /\ transactions = {}
  /\ budgets = {}
  /\ tz = 0
  /\ currentView \in {"dashboard", "accounts", "loans"}
  /\ ModalInit
  /\ ViewInit
  /\ LedgerInit
  /\ PageInit
  /\ AuxInit
  /\ RlsInit

SpecForm == FormSpecInit /\ [][FormNext]_vars

\* the form submitted with and without what its guard asks for
GuardNext ==
  \/ \E show \in BOOLEAN : setShowAddTransaction(show)
  \/ \E text \in FormAmounts : setAmount(text)
  \/ \E ok \in BOOLEAN : formAccountsLoaded(ok)
  \/ \E i \in 1..MaxLoads, ok \in BOOLEAN : loadCategories(i, ok)
  \/ \E user \in BOOLEAN : onSubmit(user)
  \/ \E i \in 1..MaxAttempts, okT \in BOOLEAN : submitDone(i, okT, TRUE, TRUE)

SpecGuard == FormSpecInit /\ [][GuardNext]_vars

\* the three add forms, each opened, submitted and closed
SubmitNext ==
  \/ \E show \in BOOLEAN : setShowAddTransaction(show)
  \/ \E text \in FormAmounts : setAmount(text)
  \/ \E ok \in BOOLEAN : formAccountsLoaded(ok)
  \/ \E i \in 1..MaxLoads, ok \in BOOLEAN : loadCategories(i, ok)
  \/ onSubmit(TRUE)
  \/ \E i \in 1..MaxAttempts, okT \in BOOLEAN : submitDone(i, okT, TRUE, TRUE)
  \/ \E show \in BOOLEAN : setShowAddModal(show)
  \/ \E user \in BOOLEAN : addSubmit(user)
  \/ \E ok \in BOOLEAN : addDone(ok)
  \/ \E ok \in BOOLEAN : orphanDone(ok)

SpecSubmit == FormSpecInit /\ [][SubmitNext]_vars

\* ------------------------------------------------ properties: mutation flow
RECURSIVE SumAmounts(_)
SumAmounts(rows) ==
  IF rows = {} THEN 0
  ELSE LET r == CHOOSE x \in rows : TRUE IN r.amount + SumAmounts(rows \ {r})

RowsOf(a, type) == {t \in transactions : t.account_id = a /\ t.type = type}

NetOf(a) == SumAmounts(RowsOf(a, "income")) - SumAmounts(RowsOf(a, "expense"))

AllIdle == \A c \in Clients : pc[c] = "idle"

\* C1: whenever no submission is in flight, every account's stored balance is
\* its opening balance plus its recorded income minus its recorded expense.
BalanceReflectsTransactions ==
  AllIdle => \A a \in AccountIds : accounts[a].balance = OpeningBalance + NetOf(a)

\* the write-back of session c completes successfully in this step
WriteBackDone(c) ==
  pc[c] = "update" /\ pc'[c] = "idle" /\ "update" \notin failedReqs'[c]

\* C2: a successful write-back stores the balance this session re-read plus or
\* minus its own amount, whatever the store holds by then: nothing checks that
\* the balance is still the one that was read.
WriteBackOverwrites ==
  [][\A c \in Clients :
       WriteBackDone(c) =>
         accounts'[req[c].accountId].balance =
           IF req[c].type = "income"
           THEN accountData[c].balance + req[c].amount
           ELSE accountData[c].balance - req[c].amount]_vars

\* C2 witness: two overlapping submissions on one account both succeeded, both
\* rows are stored, and the balance carries the amount of only one of them.
LostUpdate ==
  /\ AllIdle
  /\ \A c \in Clients : succeeded[c] /\ failedReqs[c] = {} /\ overlap[c]
  /\ \E a \in AccountIds :
       /\ Cardinality({t \in transactions : t.account_id = a}) = 2
       /\ accounts[a].balance # OpeningBalance + NetOf(a)
       /\ \E t \in transactions :
            /\ t.account_id = a
            /\ accounts[a].balance =
                 OpeningBalance + (IF t.type = "income" THEN t.amount ELSE 0 - t.amount)

\* C3: a submission whose requests all succeed issues insert, select, update in
\* that order, and when no other submission overlapped it the write-back moves
\* the stored balance by exactly +amount (income) or -amount (expense).
SoloSubmission ==
  /\ [](\A c \in Clients :
          (pc[c] = "idle" /\ succeeded[c] /\ failedReqs[c] = {})
             => log[c] = <<"insert", "select", "update">>)
  /\ [][\A c \in Clients :
          (WriteBackDone(c) /\ ~overlap[c]) =>
             /\ accountData[c].balance = accounts[req[c].accountId].balance
             /\ accounts'[req[c].accountId].balance =
                  IF req[c].type = "income"
                  THEN accounts[req[c].accountId].balance + req[c].amount
                  ELSE accounts[req[c].accountId].balance - req[c].amount]_vars

\* C3 witness: balance 1000, one expense of 150 submitted alone, balance 850.
SoloExpenseDone ==
  \E c \in Clients, a \in AccountIds :
    /\ pc[c] = "idle" /\ succeeded[c] /\ failedReqs[c] = {} /\ ~overlap[c]
    /\ log[c] = <<"insert", "select", "update">>
    /\ \E t \in transactions :
         /\ transactions = {t}
         /\ t.account_id = a /\ t.type = "expense" /\ t.amount = 150
    /\ accounts[a].balance = 850

\* C4: a submission that ends with any failed store request has shown the
\* alert, has not invoked onSuccess and has not closed the form.
FailureIsSurfaced ==
  [][\A c \in Clients :
       (pc[c] # "idle" /\ pc'[c] = "idle" /\ failedReqs'[c] # {}) =>
          alerted'[c] /\ ~succeeded'[c] /\ isOpen'[c] = isOpen[c]]_vars

InsertsIn(l) == Cardinality({i \in 1..Len(l) : l[i] = "insert"})

\* C5: a submission issues at most one insert; when the insert fails the
\* submission ends there: no re-read, no write-back, no retry, and the step
\* leaves the accounts and the transactions as they were.
FailedInsertIsTerminal ==
  /\ [](\A c \in Clients :
          /\ InsertsIn(log[c]) <= 1
          /\ "insert" \in failedReqs[c] => (log[c] = <<"insert">> /\ pc[c] = "idle"))
  /\ [][\A c \in Clients :
          (pc[c] = "insert" /\ "insert" \in failedReqs'[c]) =>
             accounts' = accounts /\ transactions' = transactions]_vars

\* C5 witness: a submission ended by a failed insert, alert shown, form open.
InsertFailed ==
  \E c \in Clients :
    /\ "insert" \in failedReqs[c] /\ pc[c] = "idle" /\ alerted[c] /\ ~succeeded[c]
    /\ ~loading[c] /\ isOpen[c]
    /\ \A a \in AccountIds : accounts[a].balance = OpeningBalance

\* ------------------------------------------------ properties: aggregations
TransactionsLoaded == dash.phase # "mounted" /\ dash.transactionsOk

\* C6: the savings rate is max(0, (income - expense) / income * 100) when
\* income > 0 and 0 otherwise, lies in [0, 100], and is 0 exactly when income
\* is 0 or expense >= income.
SavingsRateContract ==
  TransactionsLoaded =>
    LET income == stats.monthlyIncome
        expense == stats.monthlyExpense
        rate == stats.savingsRate
    IN /\ rate.kind = "fin"
       /\ IF income > 0 /\ income - expense >= 0
          THEN rate = Quotient((income - expense) * 100, income)
          ELSE rate.num = 0
       /\ (income = 8000 /\ expense = 2000) => rate = Fin(75)
       /\ GreaterEq(rate, 0) /\ LessEq(rate, 100)
       /\ (rate.num = 0) <=> (income = 0 \/ expense >= income)

\* the transactions dated from the first day of the month up to now
InMonthToNow(type) ==
  {t \in transactions : t.type = type /\ t.transaction_date >= 0 /\ t.transaction_date <= Today}

\* C7: monthly income and monthly expense are the sums of the income and the
\* expense transactions dated between the first day of the current month and
\* now; transfers and rows dated outside that range count for neither.
MonthlyTotalsContract ==
  TransactionsLoaded =>
    /\ stats.monthlyIncome = SumAmounts(InMonthToNow("income"))
    /\ stats.monthlyExpense = SumAmounts(InMonthToNow("expense"))

RECURSIVE SumBalances(_)
SumBalances(ids) ==
  IF ids = {} THEN 0
  ELSE LET a == CHOOSE x \in ids : TRUE IN accounts[a].balance + SumBalances(ids \ {a})

\* C8: once the accounts are fetched, the total balance of the Dashboard and
\* of the Accounts view is the sum of the balances of the active accounts, in
\* whatever order the rows arrived; inactive accounts add nothing.
TotalBalanceIsSumOfActive ==
  /\ (dash.phase # "mounted" /\ dash.accountsOk) =>
        stats.totalBalance = SumBalances({a \in DOMAIN accounts : accounts[a].is_active})
  /\ acctView.fetch = "ok" =>
        /\ totalBalance = SumBalances({a \in DOMAIN accounts : accounts[a].is_active})
        /\ {acctView.accounts[i].id : i \in 1..Len(acctView.accounts)} =
             {a \in DOMAIN accounts : accounts[a].is_active}

\* C8 witness: the Accounts view shows 1250 for active accounts of 1000 and 250
\* that arrived in the order a2, a1, beside an inactive account holding 1000.
TotalOfTwoActive ==
  /\ acctView.fetch = "ok" /\ ~acctView.loading
  /\ DOMAIN accounts = DashAccountIds
  /\ ~accounts["a3"].is_active /\ accounts["a3"].balance = 1000
  /\ accounts["a1"].balance = 1000 /\ accounts["a2"].balance = 250
  /\ Len(acctView.accounts) = 2
  /\ acctView.accounts[1].id = "a2" /\ acctView.accounts[2].id = "a1"
  /\ totalBalance = 1250

BudgetsLoaded == dash.phase = "loaded" /\ dash.budgetsOk /\ dash.failed = {}

Listed(id) == \E i \in 1..Len(budgetAlerts) : budgetAlerts[i].id = id

Computed(id) ==
  dash.computed[CHOOSE i \in 1..Len(dash.computed) : dash.computed[i].id = id]

\* C9: a budget is listed as an alert exactly when it is active and its
\* computed percentage has reached its own alert_at_percentage.
AlertAtOwnThreshold ==
  BudgetsLoaded =>
    \A b \in budgets :
      Listed(b.id) <=>
        (b.is_active /\ GreaterEq(Computed(b.id).percentage, b.alert_at_percentage))

\* the expenses of the month that count against a budget
MatchingExpenses(b) ==
  {t \in transactions :
     /\ t.type = "expense"
     /\ t.transaction_date >= 0 /\ t.transaction_date <= Today
     /\ b.category_id # NullId => t.category_id = b.category_id}

\* C10: the spent amount of an active budget is the sum of this month's
\* expenses in its category, or of all this month's expenses when it has no
\* category; limit 1000, threshold 80 and matching expenses of 850 are listed
\* at 85 percent.
SpentMatchesCategory ==
  BudgetsLoaded =>
    \A b \in budgets :
      b.is_active =>
        /\ Computed(b.id).spent = SumAmounts(MatchingExpenses(b))
        /\ (b.amount = 1000 /\ b.alert_at_percentage = 80
              /\ SumAmounts(MatchingExpenses(b)) = 850) =>
             \E i \in 1..Len(budgetAlerts) :
               /\ budgetAlerts[i].id = b.id
               /\ budgetAlerts[i].percentage.num = 85 * budgetAlerts[i].percentage.den

\* ------------------------------------------------ properties: Loans view
LoanOf(card) == CHOOSE l \in loans : l.id = card.id

Cards == {LoanCards[i] : i \in 1..Len(LoanCards)}

\* a <= b for two finite quotients
QuotientLeq(a, b) == a.num * b.den <= b.num * a.den

\* C11: for a positive principal the payoff percentage is 100 when nothing
\* remains, is 60 for principal 100000 and remaining 40000, and of two loans
\* with the same principal the one with less remaining has the percentage
\* that is at least as high.
PayoffPercentageContract ==
  \A c \in Cards :
    LET l == LoanOf(c) IN
      l.principal_amount > 0 =>
        /\ loanProgress(l).kind = "fin"
        /\ l.remaining_amount = 0 => loanProgress(l) = Fin(100)
        /\ (l.principal_amount = 100000 /\ l.remaining_amount = 40000)
              => loanProgress(l) = Fin(60) /\ c.progressText = Fin(60)
        /\ \A d \in Cards :
             (LoanOf(d).principal_amount = l.principal_amount
                /\ LoanOf(d).remaining_amount <= l.remaining_amount)
               => QuotientLeq(loanProgress(l), loanProgress(LoanOf(d)))

\* C11 witness: two loans of principal 100000 are shown, one with 40000
\* remaining at 60 percent and one with nothing remaining at 100 percent.
PayoffSixtyAndFull ==
  \E c, d \in Cards :
    /\ LoanOf(c).principal_amount = 100000 /\ LoanOf(c).remaining_amount = 40000
    /\ LoanOf(d).principal_amount = 100000 /\ LoanOf(d).remaining_amount = 0
    /\ c.progressText = Fin(60) /\ d.progressText = Fin(100)

\* a displayed number lies in [0, 100]
InPercentRange(r) == r.kind = "fin" /\ GreaterEq(r, 0) /\ LessEq(r, 100)

\* C12: for every loan with a positive principal, the percentage text and the
\* width of the progress bar lie in [0, 100], also when remaining exceeds the
\* principal or is negative.
DisplayedProgressInRange ==
  \A c \in Cards :
    LoanOf(c).principal_amount > 0 =>
      InPercentRange(c.progressText) /\ InPercentRange(c.barWidth)

\* C13: an aggregation whose divisor is zero yields 0: the savings rate with no
\* income, the payoff percentage of a loan with principal 0, and the
\* percentage of a budget whose limit is 0.
ZeroDivisorYieldsZero ==
  /\ (TransactionsLoaded /\ stats.monthlyIncome = 0) => stats.savingsRate = Fin(0)
  /\ \A c \in Cards :
       LoanOf(c).principal_amount = 0 => loanProgress(LoanOf(c)) = Fin(0)
  /\ BudgetsLoaded =>
       \A b \in budgets :
         (b.is_active /\ b.amount = 0) => Computed(b.id).percentage = Fin(0)

\* C14: a loan with an end date shows max(0, (end year - current year) * 12 +
\* (end month - current month)) months remaining, which is 6 for an end date
\* six calendar months from now; a loan without an end date has null and
\* shows no months-remaining text.
MonthsRemainingContract ==
  \A c \in Cards :
    LET end == LoanOf(c).end_date
        diff == (end.value.year - ThisYear) * 12 + (end.value.month - ThisMonth)
    IN IF end.isNull
       THEN c.monthsRemaining.isNull /\ c.monthsText = "none"
       ELSE /\ ~c.monthsRemaining.isNull
            /\ c.monthsRemaining.value = (IF diff > 0 THEN diff ELSE 0)
            /\ c.monthsRemaining.value >= 0
            /\ diff = 6 => c.monthsRemaining.value = 6
            /\ c.monthsText # "none"

\* ------------------------------------------- properties: subscriptions
SubscriptionOf(line) == CHOOSE x \in subscriptions : x.id = line.id

\* C15: every upcoming subscription has a "Due in N days" line, and N is the
\* least whole number of days that reaches from now to its next billing date;
\* N is not clamped: it is zero or negative when that date is not after now.
DaysUntilIsCeiling ==
  /\ Len(DueLines) = Len(upcomingSubscriptions)
  /\ \A i \in 1..Len(DueLines) :
       LET line == DueLines[i]
           diff == SubscriptionOf(line).next_billing_date * 24 - clock
       IN /\ line.id = upcomingSubscriptions[i].id
          /\ line.days * 24 >= diff
          /\ (line.days - 1) * 24 < diff
          /\ diff <= 0 => line.days <= 0

\* C15 witness: at 06:00 the subscription billed the day before yesterday is
\* shown as due in -2 days, next to one that is due in 1 day.
OverdueShownNegative ==
  /\ clock = Today * 24 + 6
  /\ \E i, j \in 1..Len(DueLines) :
       /\ SubscriptionOf(DueLines[i]).next_billing_date = 0 - 1
       /\ DueLines[i].days = 0 - 2
       /\ SubscriptionOf(DueLines[j]).next_billing_date = Today + 1
       /\ DueLines[j].days = 1

\* ------------------------------------------------ properties: fetch failure
\* C16: after a failed fetch each data view eventually leaves its loading
\* state (the Dashboard leaves it when loadDashboardData has run to its end).
FailedFetchLeavesLoading ==
  /\ (acctView.fetch = "error") ~> ~acctView.loading
  /\ (txnView.fetch = "error") ~> ~txnView.loading
  /\ (loansView.fetch = "error") ~> ~loansView.loading
  /\ (dash.phase # "mounted" /\ ~(dash.accountsOk /\ dash.transactionsOk /\ dash.budgetsOk))
       ~> (dash.phase = "loaded")

\* ------------------------------------------------ properties: requests
\* C17: every request a submission has issued is restricted to the rows of
\* the signed-in user (it filters on, or carries, user_id).
EveryRequestScopedToUser ==
  \A c \in Clients : \A i \in 1..Len(log[c]) : "user_id" \in RequestScope(log[c][i])

\* C19: no stored transaction has a negative amount.
AmountsNonNegative == \A t \in transactions : t.amount >= 0

\* the balance of account a differs after the step
BalanceChanged(a) == a \in DOMAIN accounts' /\ accounts'[a].balance # accounts[a].balance

\* C20: an account, once created, stays in the store, and its balance changes
\* only in the step that completes the write-back of a transaction submission
\* for that account; every other step leaves it as it was.
BalanceFrame ==
  [][/\ DOMAIN accounts \subseteq DOMAIN accounts'
     /\ \A a \in DOMAIN accounts :
          BalanceChanged(a) =>
            \E c \in Clients :
              pc[c] = "update" /\ pc'[c] = "idle" /\ req[c].accountId = a]_vars

\* C20 witness: an account and a loan were added, the views were loaded, and
\* an expense of 150 on a1 moved only a1's balance.
OnlySubmittedAccountMoved ==
  /\ accounts["a1"].balance = 850
  /\ accounts["a2"].balance = OpeningBalance
  /\ "a3" \in DOMAIN accounts /\ accounts["a3"].balance = 150
  /\ loans # {}
  /\ acctView.fetch = "ok" /\ Len(acctView.accounts) = 3

\* ------------------------------------------------ properties: policies
\* C18: a read returns only rows the caller owns, or system categories; and
\* every write is some user's own: it creates only rows that user owns and
\* leaves every row that user does not own, system categories included, in
\* the store unchanged.
PoliciesIsolateUsers ==
  /\ [](\A r \in lastRead.rows :
          r.user_id = lastRead.caller \/ (lastRead.table = "categories" /\ r.is_system))
  /\ [][\E u \in Users : \A t \in Tables :
          /\ \A r \in db[t] : r.user_id # u => r \in db'[t]
          /\ \A r \in db'[t] \ db[t] : r.user_id = u]_vars

\* ------------------------------------------------ properties: the schema
SystemCategories(s, type) == {c \in s.categories : c.is_system /\ c.type = type}

\* C21: every application of the seed step leaves exactly eighteen
\* system-owned categories, five of type income and thirteen of type expense;
\* an application after the first adds no row.
SeedIsIdempotent ==
  [][schema'.seeds > schema.seeds =>
       IF schema.seeds = 0
       THEN /\ Cardinality(SystemCategories(schema', "income")) = 5
            /\ Cardinality(SystemCategories(schema', "expense")) = 13
            /\ Cardinality(schema'.categories) = 18
       ELSE schema'.categories = schema.categories]_vars

CategoryIds(s) == {c.id : c \in s.categories}

\* C22: deleting a category removes no transaction, budget or subscription
\* row: every row that referenced it is still there afterwards, its category
\* link null.
CategoryDeleteKeepsRows ==
  [][\A id \in SampleIds :
       (id \in CategoryIds(schema) /\ id \notin CategoryIds(schema')) =>
         \A table \in LinkedTables :
           /\ \A r \in schema[table] :
                r.category_id = NotNull(id) =>
                  [r EXCEPT !.category_id = Null] \in schema'[table]
           /\ Cardinality(schema'[table]) = Cardinality(schema[table])]_vars

\* ------------------------------------------------ properties: the lists
StoredRow(id) == CHOOSE t \in transactions : t.id = id

\* the names a list row is to show for the stored row it was made from
ShowsLinkedNames(row) ==
  LET t == StoredRow(row.id)
  IN /\ t.category_id \notin DOMAIN categories => row.category_name = Uncategorized
     /\ t.account_id \notin DOMAIN accounts => row.account_name = Unknown
     /\ (t.category_id \in DOMAIN categories /\ categories[t.category_id].name # <<>>)
          => row.category_name = categories[t.category_id].name
     /\ (t.account_id \in DOMAIN accounts /\ accounts[t.account_id].name # <<>>)
          => row.account_name = accounts[t.account_id].name

SameLetter(a, b) ==
  \/ a = b
  \/ \E k \in 1..Len(UpperCase) : {a, b} = {UpperCase[k], LowerCase[k]}

\* term occurs in text at some offset, case ignored
ContainsIgnoringCase(text, term) ==
  \E off \in 0..(Len(text) - Len(term)) :
    \A k \in 1..Len(term) : SameLetter(text[off + k], term[k])

\* the row passes the type filter and one of its merchant, category name and
\* description contains the search term
IsListed(t) ==
  /\ txnView.filterType = "all" \/ t.type = txnView.filterType
  /\ \/ ~t.merchant.isNull /\ ContainsIgnoringCase(t.merchant.value, txnView.searchTerm)
     \/ ContainsIgnoringCase(t.category_name, txnView.searchTerm)
     \/ ~t.description.isNull /\ ContainsIgnoringCase(t.description.value, txnView.searchTerm)

RECURSIVE SumOfType(_, _)
SumOfType(rows, type) ==
  IF rows = <<>> THEN 0
  ELSE (IF Head(rows).type = type THEN Head(rows).amount ELSE 0) + SumOfType(Tail(rows), type)

\* C29: the transactions listed are the loaded ones whose type passes the
\* filter and whose merchant, category name or description contains the search
\* term, case ignored; Total Income and Total Expense are the sums over the
\* listed ones, so a filter on one type leaves the other total 0.
ListedAndTotalsContract ==
  txnView.fetch = "ok" =>
    /\ filteredTransactions = SelectSeq(txnView.transactions, IsListed)
    /\ totalIncome = SumOfType(SelectSeq(txnView.transactions, IsListed), "income")
    /\ totalExpense = SumOfType(SelectSeq(txnView.transactions, IsListed), "expense")
    /\ txnView.filterType = "income" => totalExpense = 0
    /\ txnView.filterType = "expense" => totalIncome = 0

\* an upper-case search term and the expense filter leave one of two loaded rows
SearchNarrowsTheList ==
  /\ txnView.fetch = "ok"
  /\ txnView.searchTerm = << "C", "A" >>
  /\ txnView.filterType = "expense"
  /\ Len(txnView.transactions) = 2
  /\ Len(filteredTransactions) = 1
  /\ totalExpense = 150

\* C24: every balance the client computes is an exact decimal amount, the
\* number a two-decimal numeral denotes for the exact sum or difference of the
\* balance read and the amount, and the balance it writes is stored as that
\* exact sum or difference.
BalanceIsExactDecimal ==
  \A i \in 1..Len(money.last) :
    LET l == money.last[i]
        exact == NewBalance(l.type, l.currentBalance, l.amount)
    IN /\ l.newBalance = Number64(exact)
       /\ l.written => money.balance = exact


\* C25: every transaction stored through the form carries a category of its
\* own direction: no income transaction with an expense category, no expense
\* transaction with an income category.
CategoryMatchesType ==
  \A t \in transactions :
    t.category_id # NullId => categories[t.category_id].type = t.type

\* the step completes a submission of session c successfully
SubmissionSucceeds(c) == pc[c] # "idle" /\ pc'[c] = "idle" /\ succeeded'[c]

\* the page as a reload leaves it
Reloaded ==
  /\ currentView = "dashboard"
  /\ stats = NoStats /\ budgetAlerts = <<>> /\ dash = DashMounted
  /\ acctView = AcctMounted /\ loansView = LoansMounted /\ txnView = TxnMounted
  /\ ~showAddModal /\ upcomingSubscriptions = <<>> /\ recentTransactions = <<>>

\* C26: the step that completes a successful quick-add submission closes the
\* modal, reloads the page when the view shown is the Dashboard or
\* Transactions, and on every other view leaves the view and what it fetched
\* as they are.
ReloadIffDataView ==
  [][\A c \in Clients :
       SubmissionSucceeds(c) =>
         /\ ~isOpen'[c]
         /\ IF currentView \in {"dashboard", "transactions"}
            THEN Reloaded'
            ELSE UNCHANGED sessionVars]_vars

\* C27: each add form has at most one submission in flight, and its submit
\* button is disabled exactly while that submission is in flight.
OneSubmissionInFlight ==
  /\ Len(form.pending) <= 1
  /\ form.loading <=> form.pending # <<>>
  /\ addForm.pending <= 1
  /\ addForm.mounted => (addForm.loading <=> addForm.pending = 1)

\* C27 witness: the quick-add form has its second submission in flight after
\* the first one failed, and a new add modal instance has one in flight while
\* the submission of an earlier instance is still under way.
ResubmittedAfterFailure ==
  /\ form.attempts = 2 /\ form.loading /\ Len(form.pending) = 1 /\ transactions = {}
  /\ addForm.loading /\ addForm.pending = 1 /\ addForm.orphans = 1

\* the guard of handleSubmit fails for the submit event of this step
GuardFails == ~form'.user \/ form.accountId = "" \/ IsEmptyText(form.amount)

\* C28: a submit event whose guard fails (no user, no account selected or an
\* empty amount) changes nothing: no request is put in flight, no row is
\* inserted, no balance written, loading stays false, the modal stays open.
GuardFailureChangesNothing ==
  [][(form'.attempts # form.attempts /\ GuardFails) =>
       /\ form' = [form EXCEPT !.attempts = form'.attempts, !.user = form'.user]
       /\ UNCHANGED <<mainVars, money, addForm>>]_vars

\* C28 witness: the only submit event so far came without a user and left the
\* form open, idle and the store empty.
GuardRefusedSubmit ==
  /\ form.attempts = 1 /\ ~form.user
  /\ form.isOpen /\ ~form.loading /\ form.pending = <<>> /\ transactions = {}


\* C30: the Dashboard never shows the Spending Alert and the Great Job
\* message together.
InsightsExclusive == ~(SpendingAlert /\ GreatJob)

\* C30 witness: the month's transactions are loaded, there is income, more
\* was spent than earned, and the Spending Alert is the insight shown.
OverspentWithIncome ==
  TransactionsLoaded /\ stats.monthlyIncome > 0 /\ SpendingAlert /\ ~GreatJob


====
